---------------------------- MODULE Spec2Model ----------------------------
(***************************************************************************)
(* The all-groups synchronisation script of supadb                         *)
(* (src/scripts/bulk-create-threads.ts, second script, lines 532-1250):    *)
(* main -> processGroup -> createThread, against the remote store (tables  *)
(* threads, tags, thread_tags), the object storage and the YouTube API.    *)
(*                                                                         *)
(* Every remote call is one atomic step of the calling process.  A call    *)
(* may fail (the store, the storage or the network answers with an error): *)
(* at most faultsLeft further records are hit by failures, and while a     *)
(* record that was hit is processed every call made for it may fail.       *)
(* The store is modelled without unique                                    *)
(* constraints: a constraint can only turn a successful insert into a      *)
(* failed one, and a failed insert is already a possible outcome.          *)
(*                                                                         *)
(* Strings that the code takes apart (youtube_id, avatar_path) are         *)
(* sequences of characters; the empty string is << >>.                     *)
(***************************************************************************)
EXTENDS Integers, Sequences, FiniteSets, Bags, TLC

\* ------------------------------------------------------------------ bounds
\* Group directories of a run, records of a run, script invocations, and
\* records (or members.json reads) that are hit by failing calls.
MaxGroups == 2
MaxRecords == 2
MaxRuns == 2
MaxFaults == 1

\* --------------------------------------------------------------- constants
\* processGroup, line 1162: the pause after each record, in milliseconds.
RATE_LIMIT_MS == 100

\* ----------------------------------------------------------------- helpers
Range(s) == {s[i] : i \in DOMAIN s}

SeqsUpTo(S, n) == UNION {[1..k -> S] : k \in 0..n}

RECURSIVE SumOver(_, _)
SumOver(f, S) ==
  IF S = {} THEN 0
  ELSE LET x == CHOOSE y \in S : TRUE IN f[x] + SumOver(f, S \ {x})

RECURSIVE SumField(_, _)
SumField(rs, k) ==
  IF rs = << >> THEN 0 ELSE Head(rs)[k] + SumField(Tail(rs), k)

\* String.prototype.startsWith on a sequence of characters.
StartsWith(s, prefix) ==
  /\ Len(s) >= Len(prefix)
  /\ SubSeq(s, 1, Len(prefix)) = prefix

\* String.prototype.substring(1).
Substring1(s) == IF s = << >> THEN << >> ELSE Tail(s)

\* ------------------------------------------------------------- environment
\* Authored youtube_id values: empty, a channel id, a handle, neither shape.
EmptyId == << >>
UC1 == <<"U", "C", "1">>
UC2 == <<"U", "C", "2">>
H1 == <<"@", "h", "1">>
BadId == <<"h", "1">>
AuthoredIds == {EmptyId, UC1, H1, BadId, UC2}

\* The channels the YouTube Data API knows.  UC1 is also reachable by the
\* handle h1; UC2 is the id of no channel (the API answers with no items).
Channels ==
  {[id |-> UC1, handle |-> <<"h", "1">>, title |-> "t1"]}

\* snippet.thumbnails: the sizes the API may list, each with its own url, and
\* the sizes it lists for the channel unless stated otherwise.
ThumbnailSizes == {"high", "medium", "default"}

DefaultThumbnails == {"medium", "default"}

Names == {"n1"}
StoredNames == {"n0", "n1"}
StoredTitles == {"t0", "t1"}
TagNames == {"A", "B", "C"}
JobNames == {"A"}
GroupNames == {"A", "B"}
OptionLists == {<< >>, <<"C">>}

MemberRecords ==
  [name : Names, youtube_id : AuthoredIds, options : OptionLists]

\* The members a bounded members.json may list.
Members ==
  {m \in MemberRecords :
     \/ m.youtube_id = UC1
     \/ m.options = << >>}

\* metadata and members.length of the members.json files of the model.
MembersFiles == [job : JobNames, group : GroupNames, total : 0..MaxRecords]

NoMember == [name |-> "", youtube_id |-> << >>, options |-> << >>]

NoChannelInfo == [channelId |-> << >>, title |-> "", thumbnailUrl |-> ""]

NoFile == [job |-> "", group |-> "", total |-> 0]

NoResult == [success |-> 0, skipped |-> 0, failed |-> 0, total |-> 0]

NoLocals ==
  [channelInfo |-> NoChannelInfo, existingThread |-> 0,
   currentThread |-> [name |-> "", youtube_title |-> ""],
   needsUpdate |-> FALSE, tagNames |-> << >>, tagIds |-> << >>,
   thread |-> 0, avatarPath |-> << >>, caller |-> "", success |-> FALSE]

NoObs ==
  [path |-> "none", counted |-> "none", probeRows |-> 0, dupInsert |-> FALSE,
   rolledBack |-> 0, uploadFailed |-> FALSE, rollbackOk |-> FALSE,
   probeFailed |-> FALSE, readUnwritten |-> FALSE]

VARIABLES
  threads,      \* table threads: set of rows
  tags,         \* table tags: set of rows
  thread_tags,  \* table thread_tags: bag of <<thread_id, tag_id>>
  storage,      \* bucket threads: set of object paths
  nextId,       \* next generated threads.id
  nextTagId,    \* next generated tags.id
  faultsLeft,   \* records that may still be hit by failing calls
  hit,          \* per process: the current record was hit by a failing call
  catalog,      \* data/: the members.json of each group directory, when fixed
  nGroups,      \* number of group directories main iterates over
  thumbnails,   \* snippet.thumbnails of the channel: the sizes the API lists
  dataDir,      \* data/ as the metadata tools list it: job -> group dir -> file
  jobsJson,     \* data/jobs.json
  groupsJson,   \* data/<job>/groups.json of each job directory
  masterJson,   \* data/master.json
  toolRuns,     \* invocations of a metadata tool so far
  pc,           \* per process: position in main/processGroup/createThread
  run,          \* per process: number of the current invocation of the script
  gi,           \* per process: index of the current group
  mi,           \* per process: index i of the current member
  file,         \* per process: membersJson (metadata, members.length)
  member,       \* per process: membersJson.members[i], the current record
  result,       \* per process: GroupProcessResult of the current group
  allResults,   \* per process: allResults of main
  exitCode,     \* per process: exit status, -1 while running
  loc,          \* per process: locals of createThread
  log,          \* per process: remote calls issued for the current record
  obs,          \* per process: what happened to the current record
  stats         \* per process: per-run and per-group observations

storeVars == <<threads, tags, thread_tags, storage, nextId, nextTagId>>
dataVars ==
  <<catalog, nGroups, thumbnails, dataDir, jobsJson, groupsJson, masterJson,
    toolRuns>>
faultVars == <<faultsLeft, hit>>
loopVars == <<run, gi, mi, file, member, result, allResults, exitCode>>
vars ==
  <<threads, tags, thread_tags, storage, nextId, nextTagId, faultsLeft, hit,
    catalog, nGroups, thumbnails, dataDir, jobsJson, groupsJson, masterJson,
    toolRuns, pc, run, gi, mi, file, member, result, allResults, exitCode,
    loc, log, obs, stats>>

Procs == DOMAIN pc

\* ------------------------------------------------------------ remote store
\* Variant: the path starts with the timestamp instead of the row's id.
AvatarPathByTime(id, timestamp) == <<timestamp, "avatar", id>>

\* avatarPath = `${thread.id}/avatar/${timestamp}.jpg`
AvatarPath(id, timestamp) == <<id, "avatar", timestamp>>

\* .from("threads").select(...).eq("youtube_id", v).single(): the row when
\* exactly one row matches and the call did not fail, otherwise null (0).
ThreadsByYoutubeId(v) == {t \in threads : t.youtube_id = v}

SingleId(rows, ok) ==
  IF ok /\ Cardinality(rows) = 1 THEN (CHOOSE r \in rows : TRUE).id ELSE 0

TagsByName(n) == {t \in tags : t.name = n}

\* Rows of thread_tags of one thread, as a bag.
TagsOfThread(id) ==
  [x \in {y \in DOMAIN thread_tags : y[1] = id} |-> thread_tags[x]]

\* Variant: the delete's filter matches no row.
WithoutThreadNothing(id) == thread_tags

\* .delete().eq("thread_id", id)
WithoutThread(id) ==
  [x \in {y \in DOMAIN thread_tags : y[1] # id} |-> thread_tags[x]]

\* tagIds.map(tagId => ({thread_id, tag_id})) as a bag of rows.
ThreadTagRows(id, tagIds) ==
  [x \in {<<id, tagIds[i]>> : i \in DOMAIN tagIds} |->
     Cardinality({i \in DOMAIN tagIds : <<id, tagIds[i]>> = x})]

\* The association set of a thread, as a set of tag names.
TagNamesOf(id) ==
  {t.name : t \in {u \in tags : <<id, u.id>> \in DOMAIN thread_tags}}

\* --------------------------------------------------------- initial states
TagIdOf == [n \in TagNames |-> CASE n = "A" -> 1 [] n = "B" -> 2 [] OTHER -> 3]

InitTagSets == {{"A", "B"}, {"A", "C"}}

\* Remote states left by earlier runs: no thread, or the thread of channel
\* UC1 with some name, a current or stale title, and some tags.
InitStores ==
  {[threads |-> {}, tags |-> {}, thread_tags |-> EmptyBag]}
  \cup
  {[threads |-> {[id |-> 1, name |-> n, youtube_id |-> UC1,
                  youtube_title |-> t, avatar_path |-> AvatarPath(1, 0)]},
    tags |-> {[id |-> TagIdOf[x], name |-> x] : x \in S},
    thread_tags |-> SetToBag({<<1, TagIdOf[x]>> : x \in S})] :
     n \in StoredNames, t \in StoredTitles, S \in InitTagSets}

\* The synchronisation scripts read no file of the metadata tools.
NoJson == [readable |-> FALSE, content |-> << >>]

NoMetadataFiles ==
  /\ dataDir = << >>
  /\ jobsJson = NoJson
  /\ groupsJson = << >>
  /\ masterJson = NoJson
  /\ toolRuns = 0

InitStats ==
  [wrote |-> FALSE, faulted |-> FALSE, anyFalse |-> FALSE,
   invoked |-> << >>, returnedFalse |-> 0, prevClean |-> FALSE,
   waited |-> 0, tagFailed |-> {}, createFailed |-> {}, lastOk |-> TRUE]

InitProcs(P) ==
  /\ pc = [p \in P |-> "main"]
  /\ hit = [p \in P |-> FALSE]
  /\ run = [p \in P |-> 1]
  /\ gi = [p \in P |-> 0]
  /\ mi = [p \in P |-> 0]
  /\ file = [p \in P |-> NoFile]
  /\ member = [p \in P |-> NoMember]
  /\ result = [p \in P |-> NoResult]
  /\ allResults = [p \in P |-> << >>]
  /\ exitCode = [p \in P |-> -1]
  /\ loc = [p \in P |-> NoLocals]
  /\ log = [p \in P |-> << >>]
  /\ obs = [p \in P |-> NoObs]
  /\ stats = [p \in P |-> InitStats]

InitStoreIn(stores) ==
  /\ \E s \in stores :
       /\ threads = s.threads
       /\ tags = s.tags
       /\ thread_tags = s.thread_tags
  /\ storage = {t.avatar_path : t \in threads}
  /\ nextId = 2
  /\ nextTagId = 4

InitStore == InitStoreIn(InitStores)

\* One process; each members.json is authored when it is read.
Init ==
  /\ InitStore
  /\ faultsLeft = MaxFaults
  /\ catalog = << >>
  /\ nGroups \in 0..MaxGroups
  /\ thumbnails = DefaultThumbnails
  /\ NoMetadataFiles
  /\ InitProcs({1})

\* ------------------------------------------------------------ remote calls
\* The outcomes of one remote call: TRUE (it succeeds) or FALSE (it fails).
Outcomes(p) == IF faultsLeft > 0 \/ hit[p] THEN {TRUE, FALSE} ELSE {TRUE}

Spend(p, ok) ==
  /\ faultsLeft' = IF ok \/ hit[p] THEN faultsLeft ELSE faultsLeft - 1
  /\ hit' = [hit EXCEPT ![p] = @ \/ ~ok]

Member(p) == member[p]

Issue(p, call) == log' = [log EXCEPT ![p] = Append(@, call)]

\* One more insert/update/delete call issued in this run.
Wrote(p, ok) ==
  stats' = [stats EXCEPT ![p].wrote = TRUE,
                         ![p].faulted = IF ok THEN @ ELSE TRUE,
                         ![p].lastOk = ok]

Read(p, ok) ==
  stats' = [stats EXCEPT ![p].faulted = IF ok THEN @ ELSE TRUE,
                         ![p].lastOk = ok]

\* Variant: the loop goes on without counting the record that returned.
ReturnUncounted(p, v) ==
  /\ loc' = [loc EXCEPT ![p].success = v]
  /\ pc' = [pc EXCEPT ![p] = "delay"]

\* Variant: createThread reports success whatever happened.
ReturnSuccess(p, v) ==
  /\ loc' = [loc EXCEPT ![p].success = TRUE]
  /\ pc' = [pc EXCEPT ![p] = "classify"]

\* createThread returns v: control is back in processGroup.
Return(p, v) ==
  /\ loc' = [loc EXCEPT ![p].success = v]
  /\ pc' = [pc EXCEPT ![p] = "classify"]

\* ------------------------------------------------------------ pure pieces
\* Variant: the smallest thumbnail listed is preferred.
ThumbnailUrlSmallest(thumbs) ==
  IF "default" \in thumbs THEN "default"
  ELSE IF "medium" \in thumbs THEN "medium"
  ELSE IF "high" \in thumbs THEN "high"
  ELSE ""

\* getChannelInfo, lines 737-741: high || medium || default.
ThumbnailUrl(thumbs) ==
  IF "high" \in thumbs THEN "high"
  ELSE IF "medium" \in thumbs THEN "medium"
  ELSE IF "default" \in thumbs THEN "default"
  ELSE ""

\* Variant: every id that is not a channel id is looked up as a handle.
QueryShapeHandleElse(youtubeId) ==
  IF StartsWith(youtubeId, <<"U", "C">>) THEN "id" ELSE "forHandle"

\* getChannelInfo, lines 710-718: "id" query, "forHandle" query or no query.
QueryShape(youtubeId) ==
  IF StartsWith(youtubeId, <<"U", "C">>) THEN "id"
  ELSE IF StartsWith(youtubeId, <<"@">>) THEN "forHandle"
  ELSE "invalid"

\* data.items of the API's answer to the query for youtubeId.
Items(youtubeId) ==
  IF QueryShape(youtubeId) = "id"
  THEN {c \in Channels : c.id = youtubeId}
  ELSE {c \in Channels : c.handle = Substring1(youtubeId)}

\* Variant: the authored youtube_id is returned as the channel id.
ChannelInfoOfAuthored(youtubeId) ==
  IF Items(youtubeId) = {} THEN NoChannelInfo
  ELSE LET channel == CHOOSE c \in Items(youtubeId) : TRUE
       IN IF ThumbnailUrl(thumbnails) = "" THEN NoChannelInfo
          ELSE [channelId |-> youtubeId, title |-> channel.title,
                thumbnailUrl |-> ThumbnailUrl(thumbnails)]

\* getChannelInfo's result for an answered query (response.ok);
\* NoChannelInfo is null.
ChannelInfoOf(youtubeId) ==
  IF Items(youtubeId) = {} THEN NoChannelInfo
  ELSE LET channel == CHOOSE c \in Items(youtubeId) : TRUE
       IN IF ThumbnailUrl(thumbnails) = "" THEN NoChannelInfo
          ELSE [channelId |-> channel.id, title |-> channel.title,
                thumbnailUrl |-> ThumbnailUrl(thumbnails)]

\* createThread, lines 938-943 and 1062-1077: job, group, then the options.
ExpectedTagNames(metadata, m) ==
  (IF metadata.job # "" THEN <<metadata.job>> ELSE << >>)
  \o (IF metadata.group # "" THEN <<metadata.group>> ELSE << >>)
  \o m.options

NameOfTag(id) == (CHOOSE t \in tags : t.id = id).name

\* currentThreadTags.map(tt => tt.tags?.name).filter(Boolean), as a bag.
CurrentTagNames(rows) ==
  LET known == {x \in DOMAIN rows : \E t \in tags : t.id = x[2]}
  IN [n \in {NameOfTag(x[2]) : x \in known} |->
        SumOver(rows, {x \in known : NameOfTag(x[2]) = n})]

\* createThread, lines 955-957.
TagsMatch(expectedTagNames, currentTagNames) ==
  /\ Len(expectedTagNames) = BagCardinality(currentTagNames)
  /\ \A i \in DOMAIN expectedTagNames :
       BagIn(expectedTagNames[i], currentTagNames)

\* Variant: a failed call of createThread is counted as skipped.
CounterFailedAsSkipped(success, youtubeId, existingThread) ==
  IF success
  THEN IF youtubeId = << >> THEN "skipped"
       ELSE IF existingThread # 0 THEN "skipped" ELSE "success"
  ELSE "skipped"

\* Variant: the test on an empty youtube_id is left out.
CounterWithoutEmptyTest(success, youtubeId, existingThread) ==
  IF success
  THEN IF existingThread # 0 THEN "skipped" ELSE "success"
  ELSE "failed"

\* processGroup, lines 1135-1159: the counter a record is added to.
Counter(success, youtubeId, existingThread) ==
  IF success
  THEN IF youtubeId = << >> THEN "skipped"
       ELSE IF existingThread # 0 THEN "skipped" ELSE "success"
  ELSE "failed"

\* main, lines 1223-1226: the overall totals.
Totals(results) ==
  [success |-> SumField(results, "success"),
   skipped |-> SumField(results, "skipped"),
   failed |-> SumField(results, "failed"),
   total |-> SumField(results, "total")]

\* Variant: only the last group's failures decide the exit status.
ExitStatusOfLastGroup(results) ==
  IF results # << >> /\ results[Len(results)].failed > 0 THEN 1 ELSE 0

\* main, lines 1225 and 1236-1241.
ExitStatus(results) == IF SumField(results, "failed") > 0 THEN 1 ELSE 0

\* ----------------------------------------------------- main, processGroup
\* main, lines 1189-1209: nothing to do, or the first group.
MainStart(p) ==
  /\ pc[p] = "main"
  /\ IF nGroups = 0
     THEN /\ pc' = [pc EXCEPT ![p] = "done"]
          /\ exitCode' = [exitCode EXCEPT ![p] = 0]
          /\ gi' = gi
     ELSE /\ pc' = [pc EXCEPT ![p] = "group"]
          /\ gi' = [gi EXCEPT ![p] = 1]
          /\ exitCode' = exitCode
  /\ UNCHANGED <<storeVars, dataVars, faultVars, run, mi, file, member,
                 result, allResults, loc, log, obs, stats>>

AfterGroup(p) ==
  /\ gi' = [gi EXCEPT ![p] = @ + 1]
  /\ pc' = [pc EXCEPT ![p] = IF gi[p] + 1 > nGroups THEN "summary" ELSE "group"]

\* processGroup, lines 1114-1121: members.json was read.
ReadMembersJson(p, membersJson) ==
  /\ pc[p] = "group"
  /\ SumField(allResults[p], "total") + membersJson.total <= MaxRecords
  /\ file' = [file EXCEPT ![p] = membersJson]
  /\ result' = [result EXCEPT ![p] =
                  [NoResult EXCEPT !.total = membersJson.total]]
  /\ mi' = [mi EXCEPT ![p] = 1]
  /\ stats' = [stats EXCEPT ![p].invoked = << >>, ![p].returnedFalse = 0]
  /\ pc' = [pc EXCEPT ![p] = "member"]
  /\ UNCHANGED <<storeVars, dataVars, faultVars, run, gi, member,
                 allResults, exitCode, loc, log, obs>>

\* processGroup, lines 1115-1118: members.json could not be read or parsed.
ReadMembersFailed(p) ==
  /\ pc[p] = "group"
  /\ faultsLeft > 0
  /\ faultsLeft' = faultsLeft - 1
  /\ hit' = hit
  /\ allResults' = [allResults EXCEPT ![p] = Append(@, NoResult)]
  /\ stats' = [stats EXCEPT ![p].faulted = TRUE]
  /\ AfterGroup(p)
  /\ UNCHANGED <<storeVars, dataVars, run, mi, file, member, result,
                 exitCode, loc, log, obs>>

\* processGroup, lines 1124 and 1165-1176, main, line 1211.
GroupEnd(p) ==
  /\ pc[p] = "member"
  /\ mi[p] > file[p].total
  /\ allResults' = [allResults EXCEPT ![p] = Append(@, result[p])]
  /\ AfterGroup(p)
  /\ mi' = [mi EXCEPT ![p] = 0]
  /\ file' = [file EXCEPT ![p] = NoFile]
  /\ result' = [result EXCEPT ![p] = NoResult]
  /\ stats' = [stats EXCEPT ![p].invoked = << >>, ![p].returnedFalse = 0]
  /\ UNCHANGED <<storeVars, dataVars, faultVars, run, member, exitCode,
                 loc, log, obs>>

\* processGroup, line 1130, createThread, lines 857-863.
CreateThread(p, m) ==
  /\ pc[p] = "member"
  /\ mi[p] <= file[p].total
  /\ member' = [member EXCEPT ![p] = m]
  /\ hit' = [hit EXCEPT ![p] = FALSE]
  /\ stats' = [stats EXCEPT ![p].invoked = Append(@, mi[p])]
  /\ log' = [log EXCEPT ![p] = << >>]
  /\ IF m.youtube_id = << >>
     THEN /\ loc' = [loc EXCEPT ![p] = [NoLocals EXCEPT !.success = TRUE]]
          /\ obs' = [obs EXCEPT ![p] = [NoObs EXCEPT !.path = "skip"]]
          /\ pc' = [pc EXCEPT ![p] = "classify"]
     ELSE /\ loc' = [loc EXCEPT ![p] = NoLocals]
          /\ obs' = [obs EXCEPT ![p] = NoObs]
          /\ pc' = [pc EXCEPT ![p] = "resolve"]
  /\ UNCHANGED <<storeVars, dataVars, faultsLeft, run, gi, mi, file, result,
                 allResults, exitCode>>

\* Variant: createThread goes on to the probe when the lookup fails.
GetChannelInfoUnchecked(p) ==
  /\ pc[p] = "resolve"
  /\ IF QueryShape(Member(p).youtube_id) = "invalid"
     THEN /\ Return(p, FALSE)
          /\ UNCHANGED <<faultVars, log, stats>>
     ELSE \E ok \in Outcomes(p) :
            LET info == IF ok THEN ChannelInfoOf(Member(p).youtube_id)
                        ELSE NoChannelInfo
            IN /\ Spend(p, ok)
               /\ Issue(p, "youtube.fetch")
               /\ Read(p, ok)
               /\ loc' = [loc EXCEPT ![p].channelInfo = info]
               /\ pc' = [pc EXCEPT ![p] = "probe"]
  /\ UNCHANGED <<storeVars, dataVars, loopVars, obs>>

\* createThread, lines 866-870, getChannelInfo, lines 702-757.
GetChannelInfo(p) ==
  /\ pc[p] = "resolve"
  /\ IF QueryShape(Member(p).youtube_id) = "invalid"
     THEN /\ Return(p, FALSE)
          /\ UNCHANGED <<faultVars, log, stats>>
     ELSE \E ok \in Outcomes(p) :
            LET info == IF ok THEN ChannelInfoOf(Member(p).youtube_id)
                        ELSE NoChannelInfo
            IN /\ Spend(p, ok)
               /\ Issue(p, "youtube.fetch")
               /\ Read(p, ok)
               /\ IF info = NoChannelInfo
                  THEN Return(p, FALSE)
                  ELSE /\ loc' = [loc EXCEPT ![p].channelInfo = info]
                       /\ pc' = [pc EXCEPT ![p] = "probe"]
  /\ UNCHANGED <<storeVars, dataVars, loopVars, obs>>

\* createThread, lines 875-881: the probe by the resolved channel id.
Probe(p) ==
  /\ pc[p] = "probe"
  /\ \E ok \in Outcomes(p) :
       LET rows == ThreadsByYoutubeId(loc[p].channelInfo.channelId)
           existingThread == SingleId(rows, ok)
       IN /\ Spend(p, ok)
          /\ Issue(p, "threads.select")
          /\ Read(p, ok)
          /\ loc' = [loc EXCEPT ![p].existingThread = existingThread]
          /\ obs' = [obs EXCEPT ![p].probeRows = Cardinality(rows),
                                ![p].probeFailed = ~ok,
                                ![p].path = IF existingThread # 0
                                            THEN "existing" ELSE "absent"]
          /\ pc' = [pc EXCEPT ![p] = IF existingThread # 0
                                     THEN "readCurrent" ELSE "download"]
  /\ UNCHANGED <<storeVars, dataVars, loopVars>>

\* createThread, lines 889-898.
ReadCurrent(p) ==
  /\ pc[p] = "readCurrent"
  /\ \E ok \in Outcomes(p) :
       LET rows == {t \in threads : t.id = loc[p].existingThread}
       IN /\ Spend(p, ok)
          /\ Issue(p, "threads.select")
          /\ Read(p, ok)
          /\ IF ok /\ Cardinality(rows) = 1
             THEN LET t == CHOOSE r \in rows : TRUE
                  IN /\ loc' = [loc EXCEPT ![p].currentThread =
                                  [name |-> t.name,
                                   youtube_title |-> t.youtube_title]]
                     /\ pc' = [pc EXCEPT ![p] = "updateName"]
             ELSE Return(p, FALSE)
  /\ UNCHANGED <<storeVars, dataVars, loopVars, obs>>

\* Variant: the update writes the whole row, resetting avatar_path.
UpdatedThreadsWholeRow(id, field, value) ==
  {IF t.id = id
   THEN [t EXCEPT ![field] = value, !.avatar_path = << >>]
   ELSE t : t \in threads}

\* .update(patch).eq("id", id) on threads.
UpdatedThreads(id, field, value) ==
  {IF t.id = id THEN [t EXCEPT ![field] = value] ELSE t : t \in threads}

\* createThread, lines 901-916.
UpdateName(p) ==
  /\ pc[p] = "updateName"
  /\ IF loc[p].currentThread.name # Member(p).name
     THEN \E ok \in Outcomes(p) :
            /\ Spend(p, ok)
            /\ Issue(p, "threads.update.name")
            /\ Wrote(p, ok)
            /\ IF ok
               THEN /\ threads' = UpdatedThreads(loc[p].existingThread,
                                                 "name", Member(p).name)
                    /\ loc' = [loc EXCEPT ![p].needsUpdate = TRUE]
                    /\ pc' = [pc EXCEPT ![p] = "updateTitle"]
               ELSE /\ Return(p, FALSE)
                    /\ threads' = threads
     ELSE /\ pc' = [pc EXCEPT ![p] = "updateTitle"]
          /\ UNCHANGED <<threads, faultVars, loc, log, stats>>
  /\ UNCHANGED <<tags, thread_tags, storage, nextId, nextTagId, dataVars,
                 loopVars, obs>>

\* Variant: a failed title update puts the stored name back.
UpdateTitleWithRevert(p) ==
  /\ pc[p] = "updateTitle"
  /\ IF loc[p].currentThread.youtube_title # loc[p].channelInfo.title
     THEN \E ok \in Outcomes(p) :
            /\ Spend(p, ok)
            /\ Issue(p, "threads.update.youtube_title")
            /\ Wrote(p, ok)
            /\ IF ok
               THEN /\ threads' = UpdatedThreads(loc[p].existingThread,
                                                 "youtube_title",
                                                 loc[p].channelInfo.title)
                    /\ loc' = [loc EXCEPT ![p].needsUpdate = TRUE]
                    /\ pc' = [pc EXCEPT ![p] = "readTags"]
               ELSE /\ Return(p, FALSE)
                    /\ threads' = UpdatedThreads(loc[p].existingThread,
                                                 "name",
                                                 loc[p].currentThread.name)
     ELSE /\ pc' = [pc EXCEPT ![p] = "readTags"]
          /\ UNCHANGED <<threads, faultVars, loc, log, stats>>
  /\ UNCHANGED <<tags, thread_tags, storage, nextId, nextTagId, dataVars,
                 loopVars, obs>>

\* createThread, lines 919-934.
UpdateTitle(p) ==
  /\ pc[p] = "updateTitle"
  /\ IF loc[p].currentThread.youtube_title # loc[p].channelInfo.title
     THEN \E ok \in Outcomes(p) :
            /\ Spend(p, ok)
            /\ Issue(p, "threads.update.youtube_title")
            /\ Wrote(p, ok)
            /\ IF ok
               THEN /\ threads' = UpdatedThreads(loc[p].existingThread,
                                                 "youtube_title",
                                                 loc[p].channelInfo.title)
                    /\ loc' = [loc EXCEPT ![p].needsUpdate = TRUE]
                    /\ pc' = [pc EXCEPT ![p] = "readTags"]
               ELSE /\ Return(p, FALSE)
                    /\ threads' = threads
     ELSE /\ pc' = [pc EXCEPT ![p] = "readTags"]
          /\ UNCHANGED <<threads, faultVars, loc, log, stats>>
  /\ UNCHANGED <<tags, thread_tags, storage, nextId, nextTagId, dataVars,
                 loopVars, obs>>

\* createThread, lines 938-959 and 991-994: the current tags are read and
\* compared; when they match the existing path is over.
ReadTags(p) ==
  /\ pc[p] = "readTags"
  /\ \E ok \in Outcomes(p) :
       LET expectedTagNames == ExpectedTagNames(file[p], Member(p))
           currentTagNames ==
             IF ok THEN CurrentTagNames(TagsOfThread(loc[p].existingThread))
             ELSE EmptyBag
       IN /\ Spend(p, ok)
          /\ Issue(p, "thread_tags.select")
          /\ Read(p, ok)
          /\ IF TagsMatch(expectedTagNames, currentTagNames)
             THEN /\ loc' = [loc EXCEPT ![p].tagNames = expectedTagNames,
                                        ![p].success = TRUE]
                  /\ pc' = [pc EXCEPT ![p] = "classify"]
             ELSE /\ loc' = [loc EXCEPT ![p].tagNames = expectedTagNames]
                  /\ pc' = [pc EXCEPT ![p] = "deleteTags"]
          /\ obs' = [obs EXCEPT ![p].readUnwritten =
                       \A q \in Procs \ {p} :
                         "thread_tags.delete" \notin Range(log[q])]
  /\ UNCHANGED <<storeVars, dataVars, loopVars>>

\* createThread, lines 965-989: delete all thread_tags rows of the thread.
DeleteTags(p) ==
  /\ pc[p] = "deleteTags"
  /\ \E ok \in Outcomes(p) :
       /\ Spend(p, ok)
       /\ Issue(p, "thread_tags.delete")
       /\ Wrote(p, ok)
       /\ IF ~ok
          THEN /\ Return(p, FALSE)
               /\ thread_tags' = thread_tags
          ELSE /\ thread_tags' = WithoutThread(loc[p].existingThread)
               /\ IF Len(loc[p].tagNames) > 0
                  THEN /\ loc' = [loc EXCEPT ![p].thread = loc[p].existingThread,
                                             ![p].caller = "existing",
                                             ![p].tagIds = << >>]
                       /\ pc' = [pc EXCEPT ![p] = "tagSelect"]
                  ELSE /\ loc' = [loc EXCEPT ![p].needsUpdate = TRUE,
                                             ![p].success = TRUE]
                       /\ pc' = [pc EXCEPT ![p] = "classify"]
  /\ UNCHANGED <<threads, tags, storage, nextId, nextTagId, dataVars,
                 loopVars, obs>>

\* associateTagsWithThread, lines 819-825: after a tag id was pushed.
AfterTag(p, tagId) ==
  /\ loc' = [loc EXCEPT ![p].tagIds = Append(@, tagId)]
  /\ pc' = [pc EXCEPT ![p] =
              IF Len(loc[p].tagIds) + 1 = Len(loc[p].tagNames)
              THEN "insertThreadTags" ELSE "tagSelect"]

\* getOrCreateTag, lines 781-789: the select by name.
GetOrCreateTagSelect(p) ==
  /\ pc[p] = "tagSelect"
  /\ \E ok \in Outcomes(p) :
       LET tagName == loc[p].tagNames[Len(loc[p].tagIds) + 1]
           existingTag == SingleId(TagsByName(tagName), ok)
       IN /\ Spend(p, ok)
          /\ Issue(p, "tags.select")
          /\ Read(p, ok)
          /\ IF existingTag # 0
             THEN AfterTag(p, existingTag)
             ELSE /\ pc' = [pc EXCEPT ![p] = "tagInsert"]
                  /\ loc' = loc
  /\ UNCHANGED <<storeVars, dataVars, loopVars, obs>>

\* getOrCreateTag, lines 792-803: the insert of a new tag.
GetOrCreateTagInsert(p) ==
  /\ pc[p] = "tagInsert"
  /\ \E ok \in Outcomes(p) :
       LET tagName == loc[p].tagNames[Len(loc[p].tagIds) + 1]
       IN /\ Spend(p, ok)
          /\ Issue(p, "tags.insert")
          /\ Wrote(p, ok)
          /\ IF ok
             THEN /\ tags' = tags \cup {[id |-> nextTagId, name |-> tagName]}
                  /\ nextTagId' = nextTagId + 1
                  /\ AfterTag(p, nextTagId)
             ELSE /\ Return(p, FALSE)
                  /\ UNCHANGED <<tags, nextTagId>>
  /\ UNCHANGED <<threads, thread_tags, storage, nextId, dataVars, loopVars,
                 obs>>

\* associateTagsWithThread, lines 828-840, and the caller's return.
InsertThreadTags(p) ==
  /\ pc[p] = "insertThreadTags"
  /\ \E ok \in Outcomes(p) :
       /\ Spend(p, ok)
       /\ Issue(p, "thread_tags.insert")
       /\ Wrote(p, ok)
       /\ IF ok
          THEN /\ thread_tags' =
                    thread_tags (+) ThreadTagRows(loc[p].thread, loc[p].tagIds)
               /\ loc' = [loc EXCEPT ![p].success = TRUE,
                                     ![p].needsUpdate =
                                        IF loc[p].caller = "existing"
                                        THEN TRUE ELSE @]
               /\ pc' = [pc EXCEPT ![p] = "classify"]
          ELSE /\ Return(p, FALSE)
               /\ thread_tags' = thread_tags
  /\ UNCHANGED <<threads, tags, storage, nextId, nextTagId, dataVars,
                 loopVars, obs>>

\* Variant: a failed download is tried once more.
DownloadWithRetry(p) ==
  /\ pc[p] = "download"
  /\ \E ok \in Outcomes(p) :
       /\ Spend(p, ok)
       /\ Issue(p, "download")
       /\ Read(p, ok)
       /\ IF ok
          THEN /\ pc' = [pc EXCEPT ![p] = "insertThread"]
               /\ loc' = loc
          ELSE IF "download" \in Range(log[p])
               THEN Return(p, FALSE)
               ELSE UNCHANGED <<pc, loc>>
  /\ UNCHANGED <<storeVars, dataVars, loopVars, obs>>

\* createThread, lines 1001-1005, downloadImage, lines 762-774.
Download(p) ==
  /\ pc[p] = "download"
  /\ \E ok \in Outcomes(p) :
       /\ Spend(p, ok)
       /\ Issue(p, "download")
       /\ Read(p, ok)
       /\ IF ok
          THEN /\ pc' = [pc EXCEPT ![p] = "insertThread"]
               /\ loc' = loc
          ELSE Return(p, FALSE)
  /\ UNCHANGED <<storeVars, dataVars, loopVars, obs>>

\* createThread, lines 1010-1024.
InsertThread(p) ==
  /\ pc[p] = "insertThread"
  /\ \E ok \in Outcomes(p) :
       /\ Spend(p, ok)
       /\ Issue(p, "threads.insert")
       /\ Wrote(p, ok)
       /\ obs' = [obs EXCEPT ![p].dupInsert =
                    ThreadsByYoutubeId(loc[p].channelInfo.channelId) # {}]
       /\ IF ok
          THEN /\ threads' = threads \cup
                    {[id |-> nextId, name |-> Member(p).name,
                      youtube_id |-> loc[p].channelInfo.channelId,
                      youtube_title |-> loc[p].channelInfo.title,
                      avatar_path |-> << >>]}
               /\ nextId' = nextId + 1
               /\ loc' = [loc EXCEPT ![p].thread = nextId]
               /\ pc' = [pc EXCEPT ![p] = "upload"]
          ELSE /\ Return(p, FALSE)
               /\ UNCHANGED <<threads, nextId>>
  /\ UNCHANGED <<tags, thread_tags, storage, nextTagId, dataVars, loopVars>>

\* createThread, lines 1029-1046: upload with upsert: false.
Upload(p) ==
  /\ pc[p] = "upload"
  /\ \E ok \in Outcomes(p) :
       LET avatarPath == AvatarPath(loc[p].thread, run[p])
       IN /\ Spend(p, ok)
          /\ Issue(p, "upload")
          /\ Read(p, ok)
          /\ IF ok /\ avatarPath \notin storage
             THEN /\ storage' = storage \cup {avatarPath}
                  /\ loc' = [loc EXCEPT ![p].avatarPath = avatarPath]
                  /\ pc' = [pc EXCEPT ![p] = "patch"]
                  /\ obs' = obs
             ELSE /\ storage' = storage
                  /\ loc' = loc
                  /\ pc' = [pc EXCEPT ![p] = "rollback"]
                  /\ obs' = [obs EXCEPT ![p].uploadFailed = TRUE]
  /\ UNCHANGED <<threads, tags, thread_tags, nextId, nextTagId, dataVars,
                 loopVars>>

\* Variant: the delete is by the row's youtube_id instead of its id.
DeletedThreadsOfChannel(id) ==
  LET youtubeIds == {t.youtube_id : t \in {u \in threads : u.id = id}}
  IN {t \in threads : t.youtube_id \notin youtubeIds}

\* Variant: the delete spares a row whose avatar_path is still empty.
DeletedThreadWithAvatar(id) ==
  {t \in threads : t.id # id \/ t.avatar_path = << >>}

\* .delete().eq("id", id) on threads.
DeletedThread(id) == {t \in threads : t.id # id}

\* createThread, lines 1039-1044: the compensating delete, result ignored.
Rollback(p) ==
  /\ pc[p] = "rollback"
  /\ \E ok \in Outcomes(p) :
       /\ Spend(p, ok)
       /\ Issue(p, "threads.delete")
       /\ Wrote(p, ok)
       /\ threads' = IF ok THEN DeletedThread(loc[p].thread) ELSE threads
       /\ obs' = [obs EXCEPT ![p].rolledBack = loc[p].thread,
                             ![p].rollbackOk = ok]
       /\ Return(p, FALSE)
  /\ UNCHANGED <<tags, thread_tags, storage, nextId, nextTagId, dataVars,
                 loopVars>>

\* Variant: a failed avatar_path patch deletes the inserted row.
PatchWithRollback(p) ==
  /\ pc[p] = "patch"
  /\ \E ok \in Outcomes(p) :
       LET tagNames == ExpectedTagNames(file[p], Member(p))
       IN /\ Spend(p, ok)
          /\ Issue(p, "threads.update.avatar_path")
          /\ Wrote(p, ok)
          /\ IF ~ok
             THEN /\ Return(p, FALSE)
                  /\ threads' = DeletedThread(loc[p].thread)
             ELSE /\ threads' = UpdatedThreads(loc[p].thread, "avatar_path",
                                               loc[p].avatarPath)
                  /\ loc' = [loc EXCEPT ![p].tagNames = tagNames,
                                        ![p].caller = "create",
                                        ![p].tagIds = << >>]
                  /\ pc' = [pc EXCEPT ![p] = "tagSelect"]
  /\ UNCHANGED <<tags, thread_tags, storage, nextId, nextTagId, dataVars,
                 loopVars, obs>>

\* createThread, lines 1049-1087: the avatar_path patch, then the tags.
Patch(p) ==
  /\ pc[p] = "patch"
  /\ \E ok \in Outcomes(p) :
       LET tagNames == ExpectedTagNames(file[p], Member(p))
       IN /\ Spend(p, ok)
          /\ Issue(p, "threads.update.avatar_path")
          /\ Wrote(p, ok)
          /\ IF ~ok
             THEN /\ Return(p, FALSE)
                  /\ threads' = threads
             ELSE /\ threads' = UpdatedThreads(loc[p].thread, "avatar_path",
                                               loc[p].avatarPath)
                  /\ IF Len(tagNames) > 0
                     THEN /\ loc' = [loc EXCEPT ![p].tagNames = tagNames,
                                                ![p].caller = "create",
                                                ![p].tagIds = << >>]
                          /\ pc' = [pc EXCEPT ![p] = "tagSelect"]
                     ELSE /\ loc' = [loc EXCEPT ![p].success = TRUE]
                          /\ pc' = [pc EXCEPT ![p] = "classify"]
  /\ UNCHANGED <<tags, thread_tags, storage, nextId, nextTagId, dataVars,
                 loopVars, obs>>

\* Variant: a record found again after its call is counted as skipped and
\* as success.
ClassifyTwice(p) ==
  /\ pc[p] = "classify"
  /\ \E ok \in IF loc[p].success /\ Member(p).youtube_id # << >>
               THEN Outcomes(p) ELSE {TRUE} :
       LET requery == loc[p].success /\ Member(p).youtube_id # << >>
           existingThread ==
             IF requery
             THEN SingleId(ThreadsByYoutubeId(Member(p).youtube_id), ok)
             ELSE 0
           counter ==
             Counter(loc[p].success, Member(p).youtube_id, existingThread)
       IN /\ Spend(p, ok)
          /\ log' = [log EXCEPT ![p] =
                       IF requery THEN Append(@, "threads.select") ELSE @]
          /\ result' = [result EXCEPT
                          ![p][counter] = @ + 1,
                          ![p].success = IF requery /\ counter = "skipped"
                                         THEN @ + 1 ELSE @]
          /\ obs' = [obs EXCEPT ![p].counted = counter]
          /\ stats' = [stats EXCEPT
                         ![p].faulted = IF ok THEN @ ELSE TRUE,
                         ![p].lastOk = ok,
                         ![p].anyFalse = @ \/ ~loc[p].success,
                         ![p].returnedFalse =
                            IF loc[p].success THEN @ ELSE @ + 1,
                         ![p].tagFailed =
                            IF /\ ~loc[p].success
                               /\ obs[p].path = "existing"
                               /\ log[p][Len(log[p])] \in
                                    {"thread_tags.delete", "tags.insert",
                                     "thread_tags.insert"}
                            THEN @ \cup {mi[p]} ELSE @,
                         ![p].createFailed =
                            IF /\ ~loc[p].success
                               /\ obs[p].path = "absent"
                               /\ log[p][Len(log[p])] \in
                                    {"threads.update.avatar_path",
                                     "tags.insert", "thread_tags.insert"}
                            THEN @ \cup {mi[p]} ELSE @]
  /\ pc' = [pc EXCEPT ![p] = "delay"]
  /\ UNCHANGED <<storeVars, dataVars, run, gi, mi, file, member,
                 allResults, exitCode, loc>>

\* processGroup, lines 1135-1159: the record is counted; a successful record
\* with a youtube_id is looked up again by its authored youtube_id.
Classify(p) ==
  /\ pc[p] = "classify"
  /\ \E ok \in IF loc[p].success /\ Member(p).youtube_id # << >>
               THEN Outcomes(p) ELSE {TRUE} :
       LET requery == loc[p].success /\ Member(p).youtube_id # << >>
           existingThread ==
             IF requery
             THEN SingleId(ThreadsByYoutubeId(Member(p).youtube_id), ok)
             ELSE 0
           counter ==
             Counter(loc[p].success, Member(p).youtube_id, existingThread)
       IN /\ Spend(p, ok)
          /\ log' = [log EXCEPT ![p] =
                       IF requery THEN Append(@, "threads.select") ELSE @]
          /\ result' = [result EXCEPT ![p][counter] = @ + 1]
          /\ obs' = [obs EXCEPT ![p].counted = counter]
          /\ stats' = [stats EXCEPT
                         ![p].faulted = IF ok THEN @ ELSE TRUE,
                         ![p].lastOk = ok,
                         ![p].anyFalse = @ \/ ~loc[p].success,
                         ![p].returnedFalse =
                            IF loc[p].success THEN @ ELSE @ + 1,
                         ![p].tagFailed =
                            IF /\ ~loc[p].success
                               /\ obs[p].path = "existing"
                               /\ log[p][Len(log[p])] \in
                                    {"thread_tags.delete", "tags.insert",
                                     "thread_tags.insert"}
                            THEN @ \cup {mi[p]} ELSE @,
                         ![p].createFailed =
                            IF /\ ~loc[p].success
                               /\ obs[p].path = "absent"
                               /\ log[p][Len(log[p])] \in
                                    {"threads.update.avatar_path",
                                     "tags.insert", "thread_tags.insert"}
                            THEN @ \cup {mi[p]} ELSE @]
  /\ pc' = [pc EXCEPT ![p] = "delay"]
  /\ UNCHANGED <<storeVars, dataVars, run, gi, mi, file, member,
                 allResults, exitCode, loc>>

\* Variant: a failed record is followed by the next one without the pause.
DelayUnlessFailed(p) ==
  /\ pc[p] = "delay"
  /\ mi' = [mi EXCEPT ![p] = @ + 1]
  /\ pc' = [pc EXCEPT ![p] = "member"]
  /\ member' = [member EXCEPT ![p] = NoMember]
  /\ hit' = [hit EXCEPT ![p] = FALSE]
  /\ loc' = [loc EXCEPT ![p] = NoLocals]
  /\ log' = [log EXCEPT ![p] = << >>]
  /\ obs' = [obs EXCEPT ![p] = NoObs]
  /\ stats' = [stats EXCEPT ![p].waited =
                 IF obs[p].counted = "failed" THEN @ ELSE @ + RATE_LIMIT_MS,
                             ![p].lastOk = TRUE]
  /\ UNCHANGED <<storeVars, dataVars, faultsLeft, run, gi, file, result,
                 allResults, exitCode>>

\* processGroup, lines 1161-1163: the pause, then i++; the locals of the
\* finished iteration are gone.
Delay(p) ==
  /\ pc[p] = "delay"
  /\ mi' = [mi EXCEPT ![p] = @ + 1]
  /\ pc' = [pc EXCEPT ![p] = "member"]
  /\ member' = [member EXCEPT ![p] = NoMember]
  /\ hit' = [hit EXCEPT ![p] = FALSE]
  /\ loc' = [loc EXCEPT ![p] = NoLocals]
  /\ log' = [log EXCEPT ![p] = << >>]
  /\ obs' = [obs EXCEPT ![p] = NoObs]
  /\ stats' = [stats EXCEPT ![p].waited = @ + RATE_LIMIT_MS,
                             ![p].lastOk = TRUE]
  /\ UNCHANGED <<storeVars, dataVars, faultsLeft, run, gi, file, result,
                 allResults, exitCode>>

\* main, lines 1216-1243: the totals and the exit status.
Summary(p) ==
  /\ pc[p] = "summary"
  /\ exitCode' = [exitCode EXCEPT ![p] = ExitStatus(allResults[p])]
  /\ pc' = [pc EXCEPT ![p] = "done"]
  /\ UNCHANGED <<storeVars, dataVars, faultVars, run, gi, mi, file, member,
                 result, allResults, loc, log, obs, stats>>

\* The operator invokes the script again.
Rerun(p) ==
  /\ pc[p] = "done"
  /\ run[p] < MaxRuns
  /\ run' = [run EXCEPT ![p] = @ + 1]
  /\ pc' = [pc EXCEPT ![p] = "main"]
  /\ gi' = [gi EXCEPT ![p] = 0]
  /\ mi' = [mi EXCEPT ![p] = 0]
  /\ file' = [file EXCEPT ![p] = NoFile]
  /\ member' = [member EXCEPT ![p] = NoMember]
  /\ result' = [result EXCEPT ![p] = NoResult]
  /\ allResults' = [allResults EXCEPT ![p] = << >>]
  /\ exitCode' = [exitCode EXCEPT ![p] = -1]
  /\ loc' = [loc EXCEPT ![p] = NoLocals]
  /\ log' = [log EXCEPT ![p] = << >>]
  /\ obs' = [obs EXCEPT ![p] = NoObs]
  /\ stats' = [stats EXCEPT ![p] =
                 [InitStats EXCEPT !.prevClean =
                    /\ ~stats[p].faulted
                    /\ SumField(allResults[p], "failed") = 0,
                                   !.tagFailed = stats[p].tagFailed,
                                   !.createFailed = stats[p].createFailed]]
  /\ UNCHANGED <<storeVars, dataVars, faultVars>>

\* The steps of createThread and of the loops around it.
Step(p) ==
  \/ MainStart(p)
  \/ ReadMembersFailed(p)
  \/ GroupEnd(p)
  \/ GetChannelInfo(p)
  \/ Probe(p)
  \/ ReadCurrent(p)
  \/ UpdateName(p)
  \/ UpdateTitle(p)
  \/ ReadTags(p)
  \/ DeleteTags(p)
  \/ GetOrCreateTagSelect(p)
  \/ GetOrCreateTagInsert(p)
  \/ InsertThreadTags(p)
  \/ Download(p)
  \/ InsertThread(p)
  \/ Upload(p)
  \/ Rollback(p)
  \/ Patch(p)
  \/ Classify(p)
  \/ Delay(p)
  \/ Summary(p)

Next ==
  \E p \in Procs :
    \/ Step(p)
    \/ \E membersJson \in MembersFiles : ReadMembersJson(p, membersJson)
    \/ \E m \in Members : CreateThread(p, m)

Spec == Init /\ [][Next]_vars

\* ------------------------------------------------ runs over a fixed catalog
\* data/ holds one group directory whose members.json does not change.
PinnedFiles(n) ==
  [job : JobNames, group : GroupNames, members : SeqsUpTo(Members, n)]

MetadataOf(membersJson) ==
  [job |-> membersJson.job, group |-> membersJson.group,
   total |-> Len(membersJson.members)]

PinnedStep(p) ==
  \/ Step(p)
  \/ ReadMembersJson(p, MetadataOf(catalog[gi[p]]))
  \/ CreateThread(p, catalog[gi[p]].members[mi[p]])

\* One process invokes the script up to MaxRuns times on the same catalog.
InitRerun ==
  /\ InitStore
  /\ faultsLeft = MaxFaults
  /\ catalog \in {<<f>> : f \in PinnedFiles(MaxRecords)}
  /\ nGroups = Len(catalog)
  /\ thumbnails = DefaultThumbnails
  /\ NoMetadataFiles
  /\ InitProcs({1})

NextRerun == \E p \in Procs : PinnedStep(p) \/ Rerun(p)

SpecRerun == InitRerun /\ [][NextRerun]_vars

\* Two processes invoke the script once each, at the same time, on the same
\* catalog of one record.
InitRace ==
  /\ InitStoreIn({s \in InitStores :
                    \A t \in s.threads :
                      t.name \in Names /\ t.youtube_title = "t1"})
  /\ faultsLeft = MaxFaults
  /\ catalog \in {<<f>> : f \in PinnedFiles(1)}
  /\ nGroups = Len(catalog)
  /\ thumbnails = DefaultThumbnails
  /\ NoMetadataFiles
  /\ InitProcs({1, 2})

NextRace == \E p \in Procs : PinnedStep(p)

SpecRace == InitRace /\ [][NextRace]_vars

\* One process invokes the script once on a catalog of one record; the API
\* lists any of the thumbnail sizes for the channel.
InitThumbnails ==
  /\ InitStore
  /\ faultsLeft = MaxFaults
  /\ catalog \in {<<f>> : f \in PinnedFiles(1)}
  /\ nGroups = Len(catalog)
  /\ thumbnails \in SUBSET ThumbnailSizes
  /\ NoMetadataFiles
  /\ InitProcs({1})

NextThumbnails == \E p \in Procs : PinnedStep(p)

SpecThumbnails == InitThumbnails /\ [][NextThumbnails]_vars

\* ------------------------------------------------- the single-file script
\* The first script of the file (lines 1-531) processes the one members file
\* named on the command line.  Its getChannelInfo, getOrCreateTag,
\* associateTagsWithThread and createThread are those of the all-groups
\* script, except that createThread has no test on an empty youtube_id.

\* main, lines 487-506: the counter a record is added to.
CounterSingleFile(success, existingThread) ==
  IF success
  THEN IF existingThread # 0 THEN "skipped" ELSE "success"
  ELSE "failed"

\* main, lines 437-456: without an argument or without the file the script
\* exits with status 1.
MainSingleFile(p) ==
  /\ pc[p] = "main"
  /\ \E fileExists \in BOOLEAN :
       IF fileExists
       THEN /\ pc' = [pc EXCEPT ![p] = "group"]
            /\ gi' = [gi EXCEPT ![p] = 1]
            /\ exitCode' = exitCode
       ELSE /\ pc' = [pc EXCEPT ![p] = "done"]
            /\ exitCode' = [exitCode EXCEPT ![p] = 1]
            /\ gi' = gi
  /\ UNCHANGED <<storeVars, dataVars, faultVars, run, mi, file, member,
                 result, allResults, loc, log, obs, stats>>

\* main, lines 458-466: the file cannot be read or parsed.
ParseFailedSingleFile(p) ==
  /\ pc[p] = "group"
  /\ pc' = [pc EXCEPT ![p] = "done"]
  /\ exitCode' = [exitCode EXCEPT ![p] = 1]
  /\ UNCHANGED <<storeVars, dataVars, faultVars, run, gi, mi, file, member,
                 result, allResults, loc, log, obs, stats>>

\* main, line 482, createThread, lines 195-213: every record goes to the
\* channel lookup.
CreateThreadSingleFile(p, m) ==
  /\ pc[p] = "member"
  /\ mi[p] <= file[p].total
  /\ member' = [member EXCEPT ![p] = m]
  /\ hit' = [hit EXCEPT ![p] = FALSE]
  /\ stats' = [stats EXCEPT ![p].invoked = Append(@, mi[p])]
  /\ log' = [log EXCEPT ![p] = << >>]
  /\ loc' = [loc EXCEPT ![p] = NoLocals]
  /\ obs' = [obs EXCEPT ![p] = NoObs]
  /\ pc' = [pc EXCEPT ![p] = "resolve"]
  /\ UNCHANGED <<storeVars, dataVars, faultsLeft, run, gi, mi, file, result,
                 allResults, exitCode>>

\* main of the single-file script, lines 487-506: the record is counted; a
\* successful record is looked up again by its authored youtube_id.
ClassifySingleFile(p) ==
  /\ pc[p] = "classify"
  /\ \E ok \in IF loc[p].success THEN Outcomes(p) ELSE {TRUE} :
       LET requery == loc[p].success
           existingThread ==
             IF requery
             THEN SingleId(ThreadsByYoutubeId(Member(p).youtube_id), ok)
             ELSE 0
           counter ==
             CounterSingleFile(loc[p].success, existingThread)
       IN /\ Spend(p, ok)
          /\ log' = [log EXCEPT ![p] =
                       IF requery THEN Append(@, "threads.select") ELSE @]
          /\ result' = [result EXCEPT ![p][counter] = @ + 1]
          /\ obs' = [obs EXCEPT ![p].counted = counter]
          /\ stats' = [stats EXCEPT
                         ![p].faulted = IF ok THEN @ ELSE TRUE,
                         ![p].lastOk = ok,
                         ![p].anyFalse = @ \/ ~loc[p].success,
                         ![p].returnedFalse =
                            IF loc[p].success THEN @ ELSE @ + 1,
                         ![p].tagFailed =
                            IF /\ ~loc[p].success
                               /\ obs[p].path = "existing"
                               /\ log[p][Len(log[p])] \in
                                    {"thread_tags.delete", "tags.insert",
                                     "thread_tags.insert"}
                            THEN @ \cup {mi[p]} ELSE @,
                         ![p].createFailed =
                            IF /\ ~loc[p].success
                               /\ obs[p].path = "absent"
                               /\ log[p][Len(log[p])] \in
                                    {"threads.update.avatar_path",
                                     "tags.insert", "thread_tags.insert"}
                            THEN @ \cup {mi[p]} ELSE @]
  /\ pc' = [pc EXCEPT ![p] = "delay"]
  /\ UNCHANGED <<storeVars, dataVars, run, gi, mi, file, member,
                 allResults, exitCode, loc>>

\* The calls of createThread, lines 208-433.
CreateThreadCalls(p) ==
  \/ GetChannelInfo(p)
  \/ Probe(p)
  \/ ReadCurrent(p)
  \/ UpdateName(p)
  \/ UpdateTitle(p)
  \/ ReadTags(p)
  \/ DeleteTags(p)
  \/ GetOrCreateTagSelect(p)
  \/ GetOrCreateTagInsert(p)
  \/ InsertThreadTags(p)
  \/ Download(p)
  \/ InsertThread(p)
  \/ Upload(p)
  \/ Rollback(p)
  \/ Patch(p)

InitSingleFile ==
  /\ InitStore
  /\ faultsLeft = MaxFaults
  /\ catalog = << >>
  /\ nGroups = 1
  /\ thumbnails = DefaultThumbnails
  /\ NoMetadataFiles
  /\ InitProcs({1})

NextSingleFile ==
  \E p \in Procs :
    \/ MainSingleFile(p)
    \/ ParseFailedSingleFile(p)
    \/ \E membersJson \in MembersFiles : ReadMembersJson(p, membersJson)
    \/ \E m \in Members : CreateThreadSingleFile(p, m)
    \/ CreateThreadCalls(p)
    \/ ClassifySingleFile(p)
    \/ Delay(p)
    \/ GroupEnd(p)
    \/ Summary(p)

SpecSingleFile == InitSingleFile /\ [][NextSingleFile]_vars

\* ------------------------------------------------------------ metadata tools
\* scripts/update-metadata.ts and the master.json generator read data/ and
\* write jobs.json, groups.json and master.json.  Directory and group names
\* are strings; the model writes each name as its rank in the order of
\* Array.prototype.sort(), so that 1 sorts before 2.  The name 0 is the empty
\* string.  NoSource is a source that is null, absent or empty: all falsy.
MaxToolRuns == 2
GroupDirNames == {1, 2}
GroupDisplayNames == {0, 2, 3}
ExistingGroupNames == {1, 2, 3}
NoSource == ""
Sources == {NoSource, "s1"}
ExistingSources == {NoSource, "s1", "s2"}

\* What readMembersJson returns for a members.json that cannot be parsed.
UnreadableMembersJson ==
  [readable |-> FALSE,
   metadata |-> [job |-> 0, group |-> 0, source |-> NoSource],
   members |-> << >>]

RECURSIVE SortedSeq(_)
\* names.sort()
SortedSeq(S) ==
  IF S = {} THEN << >>
  ELSE LET first == CHOOSE x \in S : \A y \in S : x <= y
       IN <<first>> \o SortedSeq(S \ {first})

\* getJobDirectories(): the valid directories of data/, sorted.
GetJobDirectories == SortedSeq(DOMAIN dataDir)

\* getGroupDirectories(jobName): the directories holding a members.json.
GetGroupDirectories(jobName) == SortedSeq(DOMAIN dataDir[jobName])

\* readMembersJson(jobName, groupName): null (not readable) when reading or
\* parsing throws.
ReadMembersJsonOf(jobName, groupName) == dataDir[jobName][groupName]

\* generateJobsJson(jobNames)
GenerateJobsJson(jobNames) ==
  [readable |-> TRUE,
   content |-> [i \in DOMAIN jobNames |-> [name |-> jobNames[i]]]]

\* readExistingGroupsJson(jobName): null (not readable) when the file is
\* missing or cannot be parsed.
ReadExistingGroupsJson(jobName) == groupsJson[jobName]

\* existingGroupsMap: Map.set keeps the last entry of each name.
ExistingGroupsMap(existingGroupsJson) ==
  LET groups == existingGroupsJson.content
      names == IF existingGroupsJson.readable
                 THEN {groups[i].name : i \in DOMAIN groups} ELSE {}
      LastIndex(n) ==
        CHOOSE i \in DOMAIN groups :
          /\ groups[i].name = n
          /\ \A k \in DOMAIN groups : groups[k].name = n => k <= i
  IN [n \in names |-> groups[LastIndex(n)]]

\* One iteration of the loop over groupNames: the entry pushed to groups.
GroupEntry(jobName, groupName) ==
  LET membersJson == ReadMembersJsonOf(jobName, groupName)
      existingGroupsMap == ExistingGroupsMap(ReadExistingGroupsJson(jobName))
      groupDisplayName ==
        IF membersJson.metadata.group # 0
          THEN membersJson.metadata.group ELSE groupName
      existingSource ==
        IF groupDisplayName \in DOMAIN existingGroupsMap
          THEN existingGroupsMap[groupDisplayName].source ELSE NoSource
  IN IF ~membersJson.readable
       THEN [name |-> groupName, source |-> NoSource]
       ELSE [name |-> groupDisplayName,
             source |-> IF membersJson.metadata.source # NoSource
                          THEN membersJson.metadata.source
                          ELSE existingSource]

\* generateGroupsJson(jobName, groupNames)
GenerateGroupsJson(jobName, groupNames) ==
  LET existingGroupsJson == ReadExistingGroupsJson(jobName)
      groups == [i \in DOMAIN groupNames |-> GroupEntry(jobName, groupNames[i])]
      processedGroupNames == {groups[i].name : i \in DOMAIN groups}
      Preserved(existingGroup) == existingGroup.name \notin processedGroupNames
  IN [readable |-> TRUE,
      content |->
        groups \o (IF existingGroupsJson.readable
                     THEN SelectSeq(existingGroupsJson.content, Preserved)
                     ELSE << >>)]

syncVars ==
  <<storeVars, faultVars, loopVars, catalog, nGroups, thumbnails, pc, loc,
    log, obs, stats>>

\* main of update-metadata.ts: jobs.json, then groups.json of every job that
\* has a group directory.
MainUpdateMetadata ==
  /\ toolRuns < MaxToolRuns
  /\ toolRuns' = toolRuns + 1
  /\ LET jobNames == GetJobDirectories
     IN IF Len(jobNames) = 0
          THEN UNCHANGED <<jobsJson, groupsJson>>
          ELSE /\ jobsJson' = GenerateJobsJson(jobNames)
               /\ groupsJson' =
                    [jobName \in DOMAIN groupsJson |->
                       LET groupNames == GetGroupDirectories(jobName)
                       IN IF Len(groupNames) = 0
                            THEN groupsJson[jobName]
                            ELSE GenerateGroupsJson(jobName, groupNames)]
  /\ UNCHANGED <<dataDir, masterJson, syncVars>>

\* The members.json files update-metadata.ts meets: unreadable, or with a
\* display name and a source that may be unset.
MetadataFiles ==
  {UnreadableMembersJson}
  \cup
  {[readable |-> TRUE,
    metadata |-> [job |-> 1, group |-> g, source |-> s],
    members |-> << >>] : g \in GroupDisplayNames, s \in Sources}

\* The groups.json files an earlier run or an author left: missing, or at
\* most two entries with different names.
GroupEntries == [name : ExistingGroupNames, source : ExistingSources]

ExistingGroupsFiles ==
  {NoJson}
  \cup {[readable |-> TRUE, content |-> << >>]}
  \cup {[readable |-> TRUE, content |-> <<e>>] : e \in GroupEntries}
  \cup {[readable |-> TRUE, content |-> <<x[1], x[2]>>] :
          x \in {y \in GroupEntries \X GroupEntries : y[1].name # y[2].name}}

\* Job directory 1 holds any group directories; job directory 2, when
\* present, holds none.
InitMetadata ==
  /\ InitStoreIn({[threads |-> {}, tags |-> {}, thread_tags |-> EmptyBag]})
  /\ faultsLeft = 0
  /\ catalog = << >>
  /\ nGroups = 0
  /\ thumbnails = DefaultThumbnails
  /\ InitProcs({1})
  /\ \E jobs \in {{}, {1}, {1, 2}} :
       /\ \E dirs \in SUBSET GroupDirNames :
            \E files \in [dirs -> MetadataFiles] :
              dataDir = [j \in jobs |-> IF j = 1 THEN files ELSE << >>]
       /\ \E existing \in ExistingGroupsFiles :
            groupsJson = [j \in jobs |-> IF j = 1 THEN existing ELSE NoJson]
  /\ jobsJson = NoJson
  /\ masterJson = NoJson
  /\ toolRuns = 0

NextMetadata == MainUpdateMetadata

SpecMetadata == InitMetadata /\ [][NextMetadata]_vars

\* --------------------------------------------------- master.json generator
\* The generator lists and reads data/ with its own copies of
\* getJobDirectories, getGroupDirectories and readMembersJson, the same code
\* as in update-metadata.ts.  A member whose options are null is written as a
\* member without the field.
MasterMember(membersJson, m) ==
  [job |-> membersJson.metadata.job, group |-> membersJson.metadata.group,
   name |-> m.name, youtube_id |-> m.youtube_id]

HasOptions(m) == "options" \in DOMAIN m

\* Variant: the options are copied whenever the member has a list.
ConvertToMasterMembersAnyList(membersJson) ==
  [i \in DOMAIN membersJson.members |->
     LET m == membersJson.members[i]
         masterMember == MasterMember(membersJson, m)
     IN IF HasOptions(m)
          THEN [f \in DOMAIN masterMember \cup {"options"} |->
                  IF f = "options" THEN m.options ELSE masterMember[f]]
          ELSE masterMember]

\* convertToMasterMembers(membersJson)
ConvertToMasterMembers(membersJson) ==
  [i \in DOMAIN membersJson.members |->
     LET m == membersJson.members[i]
         masterMember == MasterMember(membersJson, m)
     IN IF HasOptions(m) /\ Len(m.options) > 0
          THEN [f \in DOMAIN masterMember \cup {"options"} |->
                  IF f = "options" THEN m.options ELSE masterMember[f]]
          ELSE masterMember]

RECURSIVE JobMembers(_, _)
\* The loop over groupNames of one job: what it pushes to allMembers.
JobMembers(jobName, groupNames) ==
  IF groupNames = << >> THEN << >>
  ELSE LET membersJson == ReadMembersJsonOf(jobName, Head(groupNames))
       IN (IF ~membersJson.readable THEN << >>
           ELSE ConvertToMasterMembers(membersJson))
          \o JobMembers(jobName, Tail(groupNames))

RECURSIVE AllMembers(_)
\* The loop over jobNames: allMembers.
AllMembers(jobNames) ==
  IF jobNames = << >> THEN << >>
  ELSE JobMembers(Head(jobNames), GetGroupDirectories(Head(jobNames)))
       \o AllMembers(Tail(jobNames))

\* main of the generator.
MainMaster ==
  /\ toolRuns < MaxToolRuns
  /\ toolRuns' = toolRuns + 1
  /\ LET jobNames == GetJobDirectories
     IN masterJson' =
          IF Len(jobNames) = 0
            THEN [readable |-> TRUE, content |-> << >>]
            ELSE [readable |-> TRUE, content |-> AllMembers(jobNames)]
  /\ UNCHANGED <<dataDir, jobsJson, groupsJson, syncVars>>

\* Member lists of a members.json: members without options, with null or
\* empty options, and with a non-empty list.
MemberLists ==
  {<< >>,
   <<[name |-> "a", youtube_id |-> "UCa"]>>,
   <<[name |-> "a", youtube_id |-> "UCa", options |-> << >>]>>,
   <<[name |-> "a", youtube_id |-> "UCa", options |-> <<"o1">>],
     [name |-> "b", youtube_id |-> "UCb", options |-> << >>]>>,
   <<[name |-> "b", youtube_id |-> "UCb", options |-> <<"o1", "o2">>],
     [name |-> "a", youtube_id |-> "UCa"]>>}

MasterFiles ==
  {UnreadableMembersJson}
  \cup
  {[readable |-> TRUE,
    metadata |-> [job |-> j, group |-> g, source |-> NoSource],
    members |-> ms] : j \in {1, 2}, g \in {1, 2}, ms \in MemberLists}

\* Job directory 1 holds up to two group directories, job directory 2 up to
\* one; a job directory may hold none.
InitMaster ==
  /\ InitStoreIn({[threads |-> {}, tags |-> {}, thread_tags |-> EmptyBag]})
  /\ faultsLeft = 0
  /\ catalog = << >>
  /\ nGroups = 0
  /\ thumbnails = DefaultThumbnails
  /\ InitProcs({1})
  /\ \E jobs \in {{}, {1}, {1, 2}} :
       /\ \E dirs1 \in SUBSET GroupDirNames, dirs2 \in SUBSET {1} :
            \E files1 \in [dirs1 -> MasterFiles],
               files2 \in [dirs2 -> MasterFiles] :
              dataDir = [j \in jobs |-> IF j = 1 THEN files1 ELSE files2]
       /\ groupsJson = [j \in jobs |-> NoJson]
  /\ jobsJson = NoJson
  /\ masterJson = NoJson
  /\ toolRuns = 0

NextMaster == MainMaster

SpecMaster == InitMaster /\ [][NextMaster]_vars

\* ------------------------------------------------------------------ claims
Returned(p) == pc[p] \in {"classify", "delay"}

Counted(p) == pc[p] = "delay"

ThreadExists(id) == \E t \in threads : t.id = id

\* C1 (as stated): after a run in which no call failed and no record was
\* counted failed, a further run over the same catalog in which no call
\* fails issues no insert, update or delete.
C1_SecondRunWritesNothing ==
  \A p \in Procs :
    (run[p] > 1 /\ stats[p].prevClean /\ ~stats[p].faulted)
      => ~stats[p].wrote

\* C2 (as stated): at most one threads row exists per youtube_id, and no
\* insert is issued for a youtube_id that already has a row.
C2_OneRowPerExternalId ==
  /\ \A t1, t2 \in threads : t1.youtube_id = t2.youtube_id => t1.id = t2.id
  /\ \A p \in Procs : ~obs[p].dupInsert

\* C3 (as stated): when the probes of two concurrent runs both observed
\* "absent" for the same channel and no call failed, then once both calls of
\* createThread have returned exactly one row exists for the channel and
\* neither record is counted failed.
C3_RaceLeavesOneRow ==
  (/\ faultsLeft = MaxFaults
   /\ \A p \in Procs : Counted(p) /\ ~hit[p] /\ obs[p].path = "absent")
    => /\ Cardinality(ThreadsByYoutubeId(UC1)) = 1
       /\ \A p \in Procs : obs[p].counted # "failed"

\* C4 (as stated): when createThread returns success on the existing path,
\* the thread's set of tag names is exactly the set of expected tag names.
C4_TagsConverge ==
  \A p \in Procs :
    (Returned(p) /\ obs[p].path = "existing" /\ loc[p].success)
      => TagNamesOf(loc[p].existingThread)
           = Range(ExpectedTagNames(file[p], member[p]))

C6_FailuresAreIsolated ==
  \A p \in Procs :
    /\ pc[p] = "member"
         => /\ stats[p].invoked = [i \in 1..(mi[p] - 1) |-> i]
            /\ result[p].failed = stats[p].returnedFalse
    /\ pc[p] = "done" => Len(allResults[p]) = nGroups

\* The second record of a group returned success after the first one failed.
C6_Witness ==
  \E p \in Procs :
    /\ pc[p] = "classify"
    /\ mi[p] = 2
    /\ result[p].failed = 1
    /\ loc[p].success

\* C7: the exit status is set only once every group has a result; it is 0
\* exactly when no call of createThread in the run returned false (no record
\* was counted failed), and 1 otherwise.
C7_ExitContract ==
  \A p \in Procs :
    /\ pc[p] # "done" => exitCode[p] = -1
    /\ pc[p] = "done"
         => /\ Len(allResults[p]) = nGroups
            /\ exitCode[p] \in {0, 1}
            /\ exitCode[p] = 0 <=> SumField(allResults[p], "failed") = 0
            /\ exitCode[p] = 0 <=> ~stats[p].anyFalse

\* A run exits with 1 after a failure in its first group, the second group
\* having been processed all the same.
C7_Witness ==
  \E p \in Procs :
    /\ pc[p] = "done"
    /\ exitCode[p] = 1
    /\ Len(allResults[p]) = 2
    /\ allResults[p][1].failed = 1
    /\ allResults[p][2].total = 1
    /\ allResults[p][2].failed = 0

\* C8: for a record with an empty youtube_id createThread returns success
\* without any remote call, and counting it adds one to skipped, changes no
\* other counter, issues no call and leaves the store as it is.
C8_EmptyIdIsSkipped ==
  [][\A p \in Procs :
       (pc[p] = "classify" /\ member[p].youtube_id = << >>
          /\ pc'[p] # "classify")
         => /\ loc[p].success
            /\ log[p] = << >>
            /\ log'[p] = << >>
            /\ result'[p] = [result[p] EXCEPT !.skipped = @ + 1]
            /\ UNCHANGED storeVars]_vars

C8_Witness ==
  \E p \in Procs :
    /\ Counted(p)
    /\ member[p].youtube_id = << >>
    /\ obs[p].counted = "skipped"
    /\ result[p].skipped = 1

\* C9 (as stated): a record whose entity was absent at the probe and whose
\* create path completed is counted under success.
C9_CreatedIsCountedSuccess ==
  \A p \in Procs :
    (Counted(p) /\ ~hit[p] /\ obs[p].path = "absent" /\ loc[p].success)
      => obs[p].counted = "success"

\* C10 (as stated): a record whose entity exists and for which nothing was
\* changed is counted under skipped.
C10_UnchangedIsCountedSkipped ==
  \A p \in Procs :
    (Counted(p) /\ ~hit[p] /\ obs[p].path = "existing" /\ loc[p].success
       /\ ~loc[p].needsUpdate)
      => obs[p].counted = "skipped"

\* C11 (as stated): a record whose entity existed and for which createThread
\* changed a field or replaced the tags is counted under success.
C11_UpdatedIsCountedSuccess ==
  \A p \in Procs :
    (Counted(p) /\ ~hit[p] /\ obs[p].path = "existing" /\ loc[p].success
       /\ loc[p].needsUpdate)
      => obs[p].counted = "success"

WriteCalls ==
  {"threads.insert", "threads.update.name", "threads.update.youtube_title",
   "threads.update.avatar_path", "threads.delete", "tags.insert",
   "thread_tags.insert", "thread_tags.delete", "upload"}

\* C12 (as stated): when the probe of threads by external id failed, no
\* insert, update, delete or upload is issued for the record, and createThread
\* returns failure.
C12_FailedProbeIsFatal ==
  \A p \in Procs :
    obs[p].probeFailed
      => /\ Range(log[p]) \cap WriteCalls = {}
         /\ Returned(p) => ~loc[p].success

\* The channel id the YouTube Data API knows for an authored youtube_id.
CanonicalId(youtubeId) == (CHOOSE c \in Items(youtubeId) : TRUE).id

NoCallFailed == faultsLeft = MaxFaults /\ \A p \in Procs : ~hit[p]

\* C13: every threads row stores a channel id, never a handle; the probe
\* selects the existing path exactly when one row carries the channel id the
\* record resolves to; and when no call has failed and the two records of a
\* group are a handle and a stable id of the same channel, the second record
\* takes the existing path and one row exists for the channel.
C13_CanonicalIdIsJoinKey ==
  /\ \A t \in threads : t.youtube_id \in {c.id : c \in Channels}
  /\ \A p \in Procs :
       /\ (pc[p] \in {"readCurrent", "download"} /\ ~obs[p].probeFailed)
            => (obs[p].path = "existing"
                  <=> Cardinality(ThreadsByYoutubeId(
                                    CanonicalId(member[p].youtube_id))) = 1)
       /\ (/\ NoCallFailed
           /\ Returned(p)
           /\ mi[p] = 2
           /\ {m.youtube_id : m \in Range(catalog[gi[p]].members)} = {H1, UC1})
            => /\ obs[p].path = "existing"
               /\ Cardinality(ThreadsByYoutubeId(UC1)) = 1

\* The entity was absent; the handle record created it and the stable-id
\* record that follows found it.
C13_Witness ==
  \E p \in Procs :
    /\ NoCallFailed
    /\ Returned(p)
    /\ mi[p] = 2
    /\ catalog[gi[p]].members[1].youtube_id = H1
    /\ catalog[gi[p]].members[2].youtube_id = UC1
    /\ nextId = 3
    /\ obs[p].path = "existing"
    /\ Cardinality(ThreadsByYoutubeId(UC1)) = 1

\* C14 (as stated): when the current tags of an existing thread were read,
\* createThread goes on without a delete or insert on thread_tags exactly when
\* the set of expected tag names equals the set of current tag names.
C14_NoOpIffSetsEqual ==
  [][\A p \in Procs :
       (pc[p] = "readTags" /\ pc'[p] # "readTags" /\ ~hit'[p])
         => (pc'[p] = "classify"
               <=> Range(ExpectedTagNames(file[p], member[p]))
                     = TagNamesOf(loc[p].existingThread))]_vars

\* The row createThread found at the probe, as the store holds it now.
Stored(p) == CHOOSE t \in threads : t.id = loc[p].existingThread

\* The call, if any, that a step of p issues.
Issued(p) ==
  IF Len(log'[p]) > Len(log[p]) THEN log'[p][Len(log'[p])] ELSE "none"

\* C15 (as stated): when createThread has returned on the existing path with
\* the current row read, an update of name was issued exactly if the stored
\* name differed from the record's name, and an update of youtube_title was
\* issued exactly if the stored title differed from the resolved title.
C15_UpdateIffFieldDiffers ==
  \A p \in Procs :
    (Returned(p) /\ obs[p].path = "existing"
       /\ loc[p].currentThread.name # "")
      => /\ "threads.update.name" \in Range(log[p])
              <=> loc[p].currentThread.name # member[p].name
         /\ "threads.update.youtube_title" \in Range(log[p])
              <=> loc[p].currentThread.youtube_title
                    # loc[p].channelInfo.title

\* C15 (amended): on the existing path, the step that compares the name
\* issues an update of name exactly if the stored name differs from the
\* record's name, the step that compares the title issues an update of
\* youtube_title exactly if the stored title differs from the resolved title,
\* and no other step issues either; every step keeps every row with its id,
\* youtube_id and avatar_path, and changes name or youtube_title only by the
\* update of that column.
C15_UpdatesPerDifferingField ==
  [][\A p \in Procs :
       (obs[p].path = "existing" /\ pc'[p] # pc[p])
         => /\ pc[p] = "updateName"
                 => /\ Issued(p) \in {"none", "threads.update.name"}
                    /\ Issued(p) = "threads.update.name"
                         <=> Stored(p).name # member[p].name
            /\ pc[p] = "updateTitle"
                 => /\ Issued(p) \in {"none", "threads.update.youtube_title"}
                    /\ Issued(p) = "threads.update.youtube_title"
                         <=> Stored(p).youtube_title
                               # loc[p].channelInfo.title
            /\ pc[p] \notin {"updateName", "updateTitle"}
                 => Issued(p) \notin {"threads.update.name",
                                      "threads.update.youtube_title",
                                      "threads.update.avatar_path",
                                      "threads.insert", "threads.delete"}
            /\ Cardinality(threads') = Cardinality(threads)
            /\ \A t \in threads :
                 \E u \in threads' :
                   /\ u.id = t.id
                   /\ u.youtube_id = t.youtube_id
                   /\ u.avatar_path = t.avatar_path
                   /\ Issued(p) # "threads.update.name" => u.name = t.name
                   /\ Issued(p) # "threads.update.youtube_title"
                        => u.youtube_title = t.youtube_title]_vars

\* The name was updated and the title, being current, was not.
C15_Witness ==
  \E p \in Procs :
    /\ pc[p] = "readTags"
    /\ "threads.update.name" \in Range(log[p])
    /\ "threads.update.youtube_title" \notin Range(log[p])
    /\ Stored(p).name = member[p].name

\* C16: when the download of the thumbnail fails, createThread returns
\* failure in that step; the store and the storage are as they were, and the
\* only calls issued for the record are the metadata fetch, the probe and the
\* download.
C16_DownloadFailureTouchesNothing ==
  [][\A p \in Procs :
       (pc[p] = "download" /\ pc'[p] = "classify")
         => /\ ~loc'[p].success
            /\ UNCHANGED storeVars
            /\ log'[p] = <<"youtube.fetch", "threads.select", "download">>
            /\ obs'[p].path = "absent"]_vars

C16_Witness ==
  \E p \in Procs :
    /\ pc[p] = "delay"
    /\ log[p] = <<"youtube.fetch", "threads.select", "download">>
    /\ obs[p].counted = "failed"
    /\ threads = {}
    /\ storage = {}

Last(s) == s[Len(s)]

UploadSucceeded(p) ==
  /\ obs[p].path = "absent"
  /\ "upload" \in Range(log[p])
  /\ ~obs[p].uploadFailed

\* C17: when createThread has returned on the absent path after a successful
\* upload, the inserted row is in threads and no delete on threads was issued
\* for the record; if the asset-path patch or a tag insert was its last call,
\* it returned failure; and a record that returned failure is counted failed.
C17_NoRollbackAfterUpload ==
  \A p \in Procs :
    (Returned(p) /\ UploadSucceeded(p))
      => /\ ThreadExists(loc[p].thread)
         /\ "threads.delete" \notin Range(log[p])
         /\ Last(log[p]) \in {"threads.update.avatar_path", "tags.insert"}
              => ~loc[p].success
         /\ (Counted(p) /\ ~loc[p].success) => obs[p].counted = "failed"

\* The asset-path patch failed after the upload; the row is still there.
C17_Witness ==
  \E p \in Procs :
    /\ pc[p] = "classify"
    /\ UploadSucceeded(p)
    /\ Last(log[p]) = "threads.update.avatar_path"
    /\ ~loc[p].success
    /\ ThreadExists(loc[p].thread)

\* C18: a step removes a row from threads only if it is the compensating
\* delete of a process whose upload failed, and the row is the one that
\* process inserted for the record it is processing (its avatar_path still
\* empty); every other row is kept by every step.
C18_EntitiesNeverDeleted ==
  [][\A t \in threads :
       \/ \E u \in threads' : u.id = t.id
       \/ \E p \in Procs :
            /\ pc[p] = "rollback"
            /\ pc'[p] = "classify"
            /\ obs[p].uploadFailed
            /\ "threads.insert" \in Range(log[p])
            /\ loc[p].thread = t.id
            /\ t.avatar_path = << >>]_vars

\* The compensating delete removed the row just inserted and kept the older
\* row of the same channel.
C18_Witness ==
  \E p \in Procs :
    /\ pc[p] = "classify"
    /\ obs[p].rollbackOk
    /\ loc[p].thread = 2
    /\ ~ThreadExists(2)
    /\ ThreadExists(1)

\* Records of the run whose processing has ended and been followed by the
\* loop's pause, counted from the loop indices.
RecordsBefore(p) ==
  SumField(allResults[p], "total") + (IF mi[p] > 0 THEN mi[p] - 1 ELSE 0)

\* C19: at every point of a run, and so whenever a call is issued for a
\* record, one pause of RATE_LIMIT_MS has elapsed for each record processed
\* before it in the run, whatever those records' outcomes and whichever group
\* they were in.
C19_PauseAfterEveryRecord ==
  \A p \in Procs :
    /\ stats[p].waited = RATE_LIMIT_MS * RecordsBefore(p)
    /\ log[p] # << >> => Len(stats[p].invoked) = mi[p]

\* The first call for the first record of the second group is issued after
\* the pause that followed the failed record of the first group.
C19_Witness ==
  \E p \in Procs :
    /\ gi[p] = 2
    /\ mi[p] = 1
    /\ pc[p] = "probe"
    /\ log[p] = <<"youtube.fetch">>
    /\ allResults[p][1].failed = 1
    /\ stats[p].waited = RATE_LIMIT_MS

CountedSoFar(p) == result[p].success + result[p].skipped + result[p].failed

InCreateThread(p) ==
  pc[p] \in {"resolve", "probe", "readCurrent", "updateName", "updateTitle",
             "readTags", "deleteTags", "tagSelect", "tagInsert",
             "insertThreadTags", "download", "insertThread", "upload",
             "rollback", "patch"}

\* Calls are issued for record mi only, after createThread was invoked for
\* records 1..mi in order and records 1..mi-1 were counted.
Sequenced(p) ==
  /\ (InCreateThread(p) \/ pc[p] = "classify")
       => /\ CountedSoFar(p) = mi[p] - 1
          /\ stats[p].invoked = [i \in 1..mi[p] |-> i]
          /\ mi[p] <= file[p].total
  /\ pc[p] = "delay" => CountedSoFar(p) = mi[p]
  /\ log[p] # << >> => (InCreateThread(p) \/ pc[p] \in {"classify", "delay"})

\* C20: before and after every step, the calls issued so far for a record
\* belong to the one record being processed, every earlier record of the
\* group has returned and been counted, and a step issues at most one call,
\* which is answered within the step.
C20_StrictSequencing ==
  [][\A p \in Procs :
       /\ Sequenced(p)
       /\ Sequenced(p)'
       /\ Len(log'[p]) <= Len(log[p]) + 1]_vars

\* The first call for the second record, issued after the first was counted.
C20_Witness ==
  \E p \in Procs :
    /\ pc[p] = "probe"
    /\ mi[p] = 2
    /\ log[p] = <<"youtube.fetch">>
    /\ CountedSoFar(p) = 1

\* C21: two processes that get-or-create the same tag name at the same time,
\* both missing on the select before either insert commits, end with one row
\* of that name: while no call has failed, tags never holds two rows of one
\* name.
C21_ContendedTagHasOneRow ==
  NoCallFailed =>
    \A n \in TagNames : Cardinality(TagsByName(n)) <= 1

\* The record at index k of the pinned group, and the records of that group
\* that resolve to the same channel as it.
RecordAt(k) == catalog[1].members[k]

SameChannelAgree(k) ==
  \A j \in DOMAIN catalog[1].members :
    Items(RecordAt(j).youtube_id) = Items(RecordAt(k).youtube_id) =>
      RecordAt(j).options = RecordAt(k).options

\* A later run in which no call has failed so far.
CleanLaterRun(p) == run[p] > 1 /\ ~stats[p].faulted /\ ~hit[p]

\* C22: when a record of an existing entity failed inside the tag
\* replacement (delete, tag insert or association insert) in one run, that
\* run still went through all its records, and a later run over the same
\* catalog in which every call succeeds takes the record down the existing
\* path, returns success for it and leaves the entity's association set equal
\* to the record's desired set; the set is still that at the end of the run
\* when the records of the entity agree on their tags.
C22_RetryRepairsTags ==
  \A p \in Procs :
    /\ (pc[p] = "done" /\ stats[p].tagFailed # {}) =>
         SumField(allResults[p], "total") = Len(catalog[1].members)
    /\ (CleanLaterRun(p) /\ Returned(p) /\ mi[p] \in stats[p].tagFailed) =>
         /\ obs[p].path = "existing"
         /\ loc[p].success
         /\ TagNamesOf(loc[p].existingThread) =
              Range(ExpectedTagNames(file[p], member[p]))
    /\ (CleanLaterRun(p) /\ pc[p] = "done") =>
         \A k \in stats[p].tagFailed :
           SameChannelAgree(k) =>
             \A t \in ThreadsByYoutubeId(CanonicalId(RecordAt(k).youtube_id)) :
               TagNamesOf(t.id) =
                 Range(ExpectedTagNames(MetadataOf(catalog[1]), RecordAt(k)))

\* The record of p has been through getChannelInfo.
Resolved(p) ==
  /\ pc[p] \notin {"main", "group", "member", "resolve", "summary", "done"}
  /\ obs[p].path # "skip"

\* C23: a record whose channel lookup gives no result (channel not found, API
\* error or thrown fetch error, youtube_id with neither prefix) is failed
\* before the store is touched: createThread has returned false, the only
\* call issued for the record is at most the one lookup (no read or write of
\* the store, no download, no upload), and the record is counted failed.
C23_ResolutionFailureTouchesNothing ==
  \A p \in Procs :
    Resolved(p) =>
      /\ member[p].youtube_id \in {BadId, UC2} =>
           loc[p].channelInfo = NoChannelInfo
      /\ member[p].youtube_id = BadId => log[p] = << >>
      /\ loc[p].channelInfo = NoChannelInfo =>
           /\ Returned(p)
           /\ ~loc[p].success
           /\ log[p] \in {<< >>, <<"youtube.fetch">>}
           /\ Counted(p) => obs[p].counted = "failed"

\* The lookup of a well-formed id failed and the record was counted failed.
C23_Witness ==
  \E p \in Procs :
    /\ pc[p] = "delay"
    /\ member[p].youtube_id = UC1
    /\ loc[p].channelInfo = NoChannelInfo
    /\ log[p] = <<"youtube.fetch">>
    /\ obs[p].counted = "failed"

\* C24: the image downloaded for a channel is the high thumbnail when the
\* API lists one, else the medium one, else the default one, for every
\* combination of sizes listed; when none is listed the lookup gives no
\* result and the record fails.
C24_ThumbnailPreference ==
  \A p \in Procs :
    Resolved(p) =>
      LET url == loc[p].channelInfo.thumbnailUrl
      IN /\ loc[p].channelInfo # NoChannelInfo =>
              /\ "high" \in thumbnails => url = "high"
              /\ ("high" \notin thumbnails /\ "medium" \in thumbnails) =>
                   url = "medium"
              /\ thumbnails = {"default"} => url = "default"
              /\ thumbnails # {}
         /\ thumbnails = {} =>
              /\ loc[p].channelInfo = NoChannelInfo
              /\ Returned(p)
              /\ ~loc[p].success
              /\ Counted(p) => obs[p].counted = "failed"
         /\ (thumbnails # {} /\ Items(member[p].youtube_id) # {}
               /\ ~stats[p].faulted) =>
              loc[p].channelInfo # NoChannelInfo

\* Only the default size is listed and its url is the one handed to the
\* download.
C24_Witness ==
  \E p \in Procs :
    /\ pc[p] = "insertThread"
    /\ thumbnails = {"default"}
    /\ loc[p].channelInfo.thumbnailUrl = "default"

TagCalls == {"tags.select", "tags.insert", "thread_tags.insert"}

HasAssociations(id) == \E x \in DOMAIN thread_tags : x[1] = id

\* C25: on the existing path the delete of the entity's associations is
\* issued before any tag get-or-create and before the association insert,
\* which run only once the delete has emptied the entity's set; a failed
\* delete ends the record as failed with no tag created, no association
\* inserted and the set unchanged; a failed tag insert or association insert
\* after the delete ends the record as failed with zero associations.
C25_DeleteBeforeRebuild ==
  [][\A p \in Procs :
       obs[p].path = "existing" =>
         /\ \A i \in DOMAIN log[p] :
              log[p][i] \in TagCalls =>
                \E j \in 1..(i - 1) : log[p][j] = "thread_tags.delete"
         /\ pc[p] \in {"tagSelect", "tagInsert", "insertThreadTags"} =>
              ~HasAssociations(loc[p].existingThread)
         /\ (pc[p] = "deleteTags" /\ pc'[p] = "classify"
               /\ ~loc'[p].success) =>
              /\ UNCHANGED <<tags, thread_tags, nextTagId>>
              /\ log'[p] = Append(log[p], "thread_tags.delete")
         /\ (pc[p] \in {"tagInsert", "insertThreadTags"}
               /\ pc'[p] = "classify" /\ ~loc'[p].success) =>
              \A x \in DOMAIN thread_tags' : x[1] # loc[p].existingThread
         /\ (pc[p] = "classify" /\ ~loc[p].success /\ pc'[p] = "delay") =>
              obs'[p].counted = "failed"]_vars

\* The association insert failed after the delete: the record has returned
\* false and the entity, which had tags, has none.
C25_Witness ==
  \E p \in Procs :
    /\ pc[p] = "classify"
    /\ obs[p].path = "existing"
    /\ ~loc[p].success
    /\ log[p][Len(log[p])] = "thread_tags.insert"
    /\ ~HasAssociations(loc[p].existingThread)

\* The calls of createThread after the lookup and the probe.
CreateCalls(p) == SubSeq(log[p], 3, Len(log[p]))

\* C26: on the absent path the calls are, in this order, the download, the
\* insert of the row (with an empty avatar_path), the upload, the avatar_path
\* patch and the tag association; each is issued only when the call before it
\* succeeded; and when createThread returns success the inserted row carries
\* the record's name, the resolved channel id and title, and as avatar_path
\* the path that was uploaded, which starts with the row's own id.
C26_CreatePathOrder ==
  [][\A p \in Procs :
       obs[p].path = "absent" =>
         LET calls == CreateCalls(p)
             n == Len(calls)
         IN /\ pc[p] # "delay" =>
                 /\ n >= 1 => calls[1] = "download"
                 /\ n >= 2 => calls[2] = "threads.insert"
                 /\ n >= 3 => calls[3] = "upload"
                 /\ n >= 4 => calls[4] \in {"threads.update.avatar_path",
                                            "threads.delete"}
                 /\ \A i \in 5..n :
                      /\ calls[4] = "threads.update.avatar_path"
                      /\ calls[i] \in TagCalls
            /\ Issued(p) \in {"threads.insert", "upload",
                              "threads.update.avatar_path", "tags.select",
                              "thread_tags.insert"} =>
                 stats[p].lastOk
            /\ (pc[p] = "insertThread" /\ pc'[p] = "upload") =>
                 \E t \in threads' \ threads :
                   t.id = loc'[p].thread /\ t.avatar_path = << >>
            /\ (pc[p] = "upload" /\ pc'[p] = "patch") =>
                 storage' \ storage = {loc'[p].avatarPath}
            /\ (pc[p] = "classify" /\ loc[p].success) =>
                 /\ calls[n] = "thread_tags.insert"
                 /\ \E t \in threads :
                      /\ t.id = loc[p].thread
                      /\ t.name = member[p].name
                      /\ t.youtube_id = CanonicalId(member[p].youtube_id)
                      /\ \E c \in Items(member[p].youtube_id) :
                           t.youtube_title = c.title
                      /\ t.avatar_path = loc[p].avatarPath
                      /\ t.avatar_path \in storage
                      /\ t.avatar_path[1] = t.id]_vars

\* createThread has returned success on the absent path after all five
\* steps.
C26_Witness ==
  \E p \in Procs :
    /\ pc[p] = "classify" /\ obs[p].path = "absent" /\ loc[p].success
    /\ member[p].youtube_id = H1
    /\ CreateCalls(p)[4] = "threads.update.avatar_path"
    /\ \E t \in threads : t.id = loc[p].thread /\ t.avatar_path \in storage

\* How many times a call was issued for the current record of p.
TimesIssued(p, call) == Cardinality({i \in DOMAIN log[p] : log[p][i] = call})

\* The calls that are not issued once per list element or by three
\* different queries.
StraightLineCalls ==
  {"youtube.fetch", "download", "threads.insert", "upload",
   "threads.update.name", "threads.update.youtube_title",
   "threads.update.avatar_path", "threads.delete", "thread_tags.select",
   "thread_tags.delete", "thread_tags.insert"}

\* C27: nothing is retried within a run: for one record the channel lookup,
\* the download, the threads insert and the upload (and every other call
\* outside the tag loop) are issued at most once, each tag of the list gets
\* at most one select and one insert, and the call issued after a failed
\* call is never that call again.
C27_NoRetry ==
  [][\A p \in Procs :
       /\ \A c \in StraightLineCalls : TimesIssued(p, c) <= 1
       /\ TimesIssued(p, "threads.select") <= 3
       /\ TimesIssued(p, "tags.select") <= Len(loc[p].tagIds) + 1
       /\ TimesIssued(p, "tags.insert") <= Len(loc[p].tagIds) + 1
       /\ (~stats[p].lastOk /\ Issued(p) # "none") =>
            /\ log[p] # << >>
            /\ Issued(p) # log[p][Len(log[p])]]_vars

\* The download failed and createThread returned after that one attempt.
C27_Witness ==
  \E p \in Procs :
    /\ pc[p] = "classify"
    /\ ~loc[p].success
    /\ ~stats[p].lastOk
    /\ log[p] = <<"youtube.fetch", "threads.select", "download">>

Counters == {"success", "skipped", "failed"}

\* p is inside the member loop of processGroup.
InGroup(p) == pc[p] \notin {"main", "group", "summary", "done"}

C30_NoCleanupOfPartialUpdate ==
  [][\A p \in Procs :
       /\ (pc[p] = "updateTitle" /\ pc'[p] = "classify"
             /\ "threads.update.name" \in Range(log[p])) =>
            /\ ~loc'[p].success
            /\ log'[p] = <<"youtube.fetch", "threads.select", "threads.select",
                           "threads.update.name",
                           "threads.update.youtube_title">>
            /\ \E t \in threads' :
                 /\ t.id = loc[p].existingThread
                 /\ t.name = member[p].name
                 /\ t.name # loc[p].currentThread.name
                 /\ t.youtube_title = loc[p].currentThread.youtube_title
            /\ UNCHANGED <<tags, thread_tags>>
       /\ (pc[p] = "classify" /\ ~loc[p].success /\ log[p] # << >>
             /\ Last(log[p]) = "threads.update.youtube_title"
             /\ pc'[p] = "delay") =>
            /\ log'[p] = log[p]
            /\ obs'[p].counted = "failed"
            /\ UNCHANGED storeVars]_vars

\* The name was updated, the title update failed, and createThread has
\* returned false with the new name stored.
C30_Witness ==
  \E p \in Procs :
    /\ pc[p] = "classify"
    /\ ~loc[p].success
    /\ log[p] = <<"youtube.fetch", "threads.select", "threads.select",
                  "threads.update.name", "threads.update.youtube_title">>
    /\ Stored(p).name = member[p].name
    /\ Stored(p).name # loc[p].currentThread.name

\* C31: when the create path of a record failed after its upload succeeded
\* (the avatar_path patch, a tag insert or the association insert failed),
\* a later run over the same catalog in which every call succeeds leaves the
\* record's threads row with a non-empty avatar_path and with an association
\* set equal to the record's desired set (the channel having one row).
C31_LaterRunCompletesCreate ==
  \A p \in Procs :
    (/\ CleanLaterRun(p) /\ Returned(p) /\ mi[p] \in stats[p].createFailed
     /\ Cardinality(ThreadsByYoutubeId(CanonicalId(member[p].youtube_id)))
          = 1) =>
      /\ loc[p].success
      /\ \A t \in ThreadsByYoutubeId(CanonicalId(member[p].youtube_id)) :
           /\ t.avatar_path # << >>
           /\ TagNamesOf(t.id) = Range(ExpectedTagNames(file[p], member[p]))

\* p has returned from a tag replacement whose read of the current tags took
\* place before any other process had written the thread's tags.
ReplacedAfterEarlyRead(p) ==
  /\ Returned(p)
  /\ obs[p].path = "existing"
  /\ obs[p].readUnwritten
  /\ "thread_tags.delete" \in Range(log[p])

\* C32: when two runs process the same existing entity with the same desired
\* tags and both read a mismatching current set before either writes, then,
\* no call failing, once both have returned the entity's association set
\* equals the desired set and thread_tags holds no (thread, tag) pair twice.
C32_InterleavedReplaceConverges ==
  (/\ Cardinality(Procs) = 2
   /\ NoCallFailed
   /\ \A p \in Procs : ReplacedAfterEarlyRead(p)) =>
    \A p \in Procs :
      /\ TagNamesOf(loc[p].existingThread) =
           Range(ExpectedTagNames(file[p], member[p]))
      /\ \A x \in DOMAIN thread_tags :
           x[1] = loc[p].existingThread => thread_tags[x] = 1

AuthoredPrefix(p, n) ==
  IF Len(member[p].youtube_id) >= n THEN SubSeq(member[p].youtube_id, 1, n)
  ELSE << >>

\* The record of p has been through getChannelInfo of the single-file script.
Looked(p) ==
  pc[p] \notin {"main", "group", "member", "resolve", "summary", "done"}

\* C34: getChannelInfo issues the by-id query for an authored id that starts
\* with "UC" and the by-handle query, without the leading "@", for one that
\* starts with "@" (so the handle of a channel resolves to the channel's id);
\* for any other id it gives no result without a network call; in the
\* single-file script this includes the empty id, whose record is counted
\* failed, not skipped.
C34_AcceptedIdShapes ==
  \A p \in Procs :
    Looked(p) =>
      /\ (AuthoredPrefix(p, 2) = <<"U", "C">>
            \/ AuthoredPrefix(p, 1) = <<"@">>) =>
           /\ log[p] # << >>
           /\ log[p][1] = "youtube.fetch"
           /\ loc[p].channelInfo # NoChannelInfo =>
                \E c \in Channels :
                  /\ loc[p].channelInfo.channelId = c.id
                  /\ \/ member[p].youtube_id = c.id
                     \/ member[p].youtube_id = <<"@">> \o c.handle
      /\ (AuthoredPrefix(p, 2) # <<"U", "C">>
            /\ AuthoredPrefix(p, 1) # <<"@">>) =>
           /\ log[p] = << >>
           /\ loc[p].channelInfo = NoChannelInfo
           /\ Returned(p)
           /\ ~loc[p].success
           /\ Counted(p) => obs[p].counted = "failed"
      /\ (member[p].youtube_id \in {UC1, H1} /\ ~hit[p]) =>
           loc[p].channelInfo # NoChannelInfo

\* The single-file script has counted a record with an empty youtube_id as
\* failed without any call.
C34_Witness ==
  \E p \in Procs :
    /\ pc[p] = "delay"
    /\ member[p].youtube_id = EmptyId
    /\ log[p] = << >>
    /\ obs[p].counted = "failed"
    /\ result[p].failed = 1

\* C35: regenerating groups.json keeps every known group.  For every job
\* whose groups.json a run of update-metadata.ts writes: every name of the
\* existing file is a name of the output; the output starts with exactly one
\* entry for each group directory and goes on with the existing entries it
\* preserves; the source of a directory's entry is the source of its members
\* file when that is set, otherwise the source of an existing entry of that
\* name, otherwise null; no name that had a non-null source gets a null one;
\* and a second run on the output of the first changes nothing.
NamesOf(groups) == {groups[i].name : i \in DOMAIN groups}

SourcesOfName(groupsFile, n) ==
  IF groupsFile.readable
    THEN {groupsFile.content[i].source :
            i \in {k \in DOMAIN groupsFile.content :
                     groupsFile.content[k].name = n}}
    ELSE {}

Regenerated(jobName) ==
  /\ toolRuns' = toolRuns + 1
  /\ jobName \in DOMAIN dataDir
  /\ DOMAIN dataDir[jobName] # {}

C35_RegenerationKeepsGroups ==
  [][\A jobName \in DOMAIN dataDir :
       Regenerated(jobName) =>
         LET old == groupsJson[jobName]
             new == groupsJson'[jobName].content
             dirs == GetGroupDirectories(jobName)
             oldNames == IF old.readable THEN NamesOf(old.content) ELSE {}
             head == SubSeq(new, 1, Len(dirs))
         IN /\ oldNames \subseteq NamesOf(new)
            /\ Len(new) >= Len(dirs)
            /\ Len(new) - Len(dirs) =
                 Cardinality({i \in DOMAIN old.content :
                                /\ old.readable
                                /\ old.content[i].name \notin NamesOf(head)})
            /\ \A k \in DOMAIN dirs :
                 LET membersJson == dataDir[jobName][dirs[k]]
                     known == SourcesOfName(old, new[k].name)
                 IN /\ new[k].name \in {dirs[k], membersJson.metadata.group}
                    /\ new[k].source =
                         IF membersJson.metadata.source # NoSource
                           THEN membersJson.metadata.source
                           ELSE IF known # {}
                                  THEN CHOOSE s \in known : TRUE
                                  ELSE NoSource
            /\ \A n \in oldNames :
                 SourcesOfName(old, n) # {NoSource} =>
                   \A k \in DOMAIN new :
                     new[k].name = n => new[k].source # NoSource
            /\ toolRuns >= 1 => groupsJson'[jobName] = old]_vars

\* C36: master.json is a complete flattening.  Once the generator has
\* written master.json, its member list has exactly one entry for every
\* member of every members.json that could be read, placed by job directory
\* name, then group directory name, then position in the file; the entry
\* carries the job and group of that file's metadata and the member's name
\* and youtube_id, and it has options exactly when the member's options are a
\* non-empty list, which it then copies.  A group whose file cannot be read
\* has no entry and the groups after it are still listed.
ReadPositions ==
  UNION {UNION {{<<j, g, i>> : i \in DOMAIN dataDir[j][g].members} :
                  g \in {x \in DOMAIN dataDir[j] : dataDir[j][x].readable}} :
           j \in DOMAIN dataDir}

ComesBefore(s, t) ==
  \/ s[1] < t[1]
  \/ s[1] = t[1] /\ s[2] < t[2]
  \/ s[1] = t[1] /\ s[2] = t[2] /\ s[3] < t[3]

PlaceOf(t) == 1 + Cardinality({s \in ReadPositions : ComesBefore(s, t)})

C36_MasterIsCompleteFlattening ==
  masterJson.readable =>
    LET out == masterJson.content
    IN /\ Len(out) = Cardinality(ReadPositions)
       /\ \A t \in ReadPositions :
            LET membersJson == dataDir[t[1]][t[2]]
                m == membersJson.members[t[3]]
                entry == out[PlaceOf(t)]
                listed == "options" \in DOMAIN m /\ m.options # << >>
            IN /\ entry.job = membersJson.metadata.job
               /\ entry.group = membersJson.metadata.group
               /\ entry.name = m.name
               /\ entry.youtube_id = m.youtube_id
               /\ ("options" \in DOMAIN entry) <=> listed
               /\ listed => entry.options = m.options

\* master.json was written from two job directories; in the first, the file
\* of group directory 1 cannot be read and the file of group directory 2
\* lists a member with options and a member with an empty options list.
C36_Witness ==
  /\ masterJson.readable
  /\ DOMAIN dataDir = {1, 2}
  /\ DOMAIN dataDir[1] = {1, 2}
  /\ ~dataDir[1][1].readable
  /\ dataDir[1][2].readable
  /\ \E i, k \in DOMAIN dataDir[1][2].members :
       /\ "options" \in DOMAIN masterJson.content[i]
       /\ "options" \notin DOMAIN masterJson.content[k]
       /\ "options" \in DOMAIN dataDir[1][2].members[k]
  /\ DOMAIN dataDir[2] = {1}
  /\ dataDir[2][1].readable
  /\ Len(masterJson.content) = 4

=============================================================================
